---- MODULE Spec2Model ----
(***************************************************************************)
(* A model of the Oganesson physics engine: the quantity layer's vector    *)
(* arithmetic, the broad-phase partitioner and the narrow-phase collider   *)
(* of collision.rs, and the Universe of universe.rs.                       *)
(*                                                                         *)
(* Float values are modelled as exact rationals [n, d] in lowest terms;    *)
(* the value with d = 0 is NaN (the result of 0.0 / 0.0).  The only       *)
(* rounding operation is the square root of a value that is not a rational *)
(* square; the properties that depend on a magnitude are stated for the    *)
(* inputs on which it is exact.                                            *)
(***************************************************************************)
EXTENDS Integers, Sequences, FiniteSets, TLC

\* ------------------------------------------------------------------------
\* Float arithmetic (quantity/scalar.rs, quantity/vector.rs)
\* ------------------------------------------------------------------------

\* Spatial dimension: the const generic N of Universe<N>, Vector<N>.
N == 2

AbsInt(x) == IF x < 0 THEN -x ELSE x

RECURSIVE Gcd(_, _)
Gcd(a, b) == IF b = 0 THEN a ELSE Gcd(b, a % b)

NaN == [n |-> 0, d |-> 0]

IsNaN(x) == x.d = 0

\* The float n/d, in lowest terms with a positive denominator.
Rat(n, d) ==
    IF d = 0 THEN NaN
    ELSE LET g == Gcd(AbsInt(n), AbsInt(d))
             s == IF d < 0 THEN -1 ELSE 1
         IN  [n |-> s * (n \div g), d |-> s * (d \div g)]

Int2R(k) == [n |-> k, d |-> 1]

Zero == Int2R(0)

One == Int2R(1)

\* x + y over the least common denominator.
RAdd(x, y) ==
    IF IsNaN(x) \/ IsNaN(y) THEN NaN
    ELSE LET g == Gcd(x.d, y.d)
         IN  Rat(x.n * (y.d \div g) + y.n * (x.d \div g), (x.d \div g) * y.d)

RNeg(x) == IF IsNaN(x) THEN NaN ELSE [n |-> -x.n, d |-> x.d]

RSub(x, y) == RAdd(x, RNeg(y))

\* x * y, the common factors cancelled before the products are taken.
RMul(x, y) ==
    IF IsNaN(x) \/ IsNaN(y) THEN NaN
    ELSE LET g1 == Gcd(AbsInt(x.n), y.d)
             g2 == Gcd(AbsInt(y.n), x.d)
         IN  Rat((x.n \div g1) * (y.n \div g2), (x.d \div g2) * (y.d \div g1))

\* x / y; 0.0 / 0.0 is NaN.  No input of the model divides a non-zero
\* value by zero.
RDiv(x, y) ==
    IF IsNaN(x) \/ IsNaN(y) THEN NaN
    ELSE IF y.n = 0 THEN NaN
    ELSE RMul(x, IF y.n < 0 THEN [n |-> -y.d, d |-> -y.n] ELSE [n |-> y.d, d |-> y.n])

RAbs(x) == IF IsNaN(x) THEN NaN ELSE [n |-> AbsInt(x.n), d |-> x.d]

\* Comparisons of floats: every comparison with NaN is false.
RLt(x, y) ==
    /\ ~IsNaN(x) /\ ~IsNaN(y)
    /\ LET g == Gcd(x.d, y.d) IN x.n * (y.d \div g) < y.n * (x.d \div g)

RLe(x, y) ==
    /\ ~IsNaN(x) /\ ~IsNaN(y)
    /\ LET g == Gcd(x.d, y.d) IN x.n * (y.d \div g) <= y.n * (x.d \div g)

RGt(x, y) == RLt(y, x)

RGe(x, y) == RLe(y, x)

\* The smaller operand in place of the larger.
RMax_Smaller(x, y) == IF IsNaN(x) THEN y ELSE IF IsNaN(y) THEN x ELSE IF RLt(x, y) THEN x ELSE y

RMax_Average(x, y) == RDiv(RAdd(x, y), Int2R(2))

\* f32::max: the larger operand; a NaN operand is ignored.
RMax(x, y) == IF IsNaN(x) THEN y ELSE IF IsNaN(y) THEN x ELSE IF RLt(x, y) THEN y ELSE x

\* The integer part of the square root of k, by bisection.
RECURSIVE ISqrtIn(_, _, _)
ISqrtIn(k, lo, hi) ==
    IF lo >= hi THEN lo
    ELSE LET mid == (lo + hi + 1) \div 2
         IN  IF mid * mid <= k THEN ISqrtIn(k, mid, hi) ELSE ISqrtIn(k, lo, mid - 1)

ISqrt(k) == ISqrtIn(k, 0, IF k < 46340 THEN k ELSE 46340)

IsSquareInt(k) == ISqrt(k) * ISqrt(k) = k

IsSquare(x) == ~IsNaN(x) /\ x.n >= 0 /\ IsSquareInt(x.n) /\ IsSquareInt(x.d)

\* f32::sqrt.  The root of a rational square is exact, as it is in f32 for
\* the values of the model; any other root is rounded, here downwards to a
\* multiple of 1/(256 d).  The square root of a negative number is NaN.
RSqrt(x) ==
    IF IsNaN(x) \/ x.n < 0 THEN NaN
    ELSE IF IsSquare(x) THEN [n |-> ISqrt(x.n), d |-> ISqrt(x.d)]
    ELSE Rat(ISqrt(x.n * x.d * 65536), x.d * 256)

\* Float::EPSILON of f32, 2^-23.
EPSILON == [n |-> 1, d |-> 8388608]

Axes == 1..N

Vec(x, y) == <<Int2R(x), Int2R(y)>>

VZero == [i \in Axes |-> Zero]

VNaN == [i \in Axes |-> NaN]

VAdd(u, v) == [i \in Axes |-> RAdd(u[i], v[i])]

VSub(u, v) == [i \in Axes |-> RSub(u[i], v[i])]

VNeg(u) == [i \in Axes |-> RNeg(u[i])]

VScale(u, k) == [i \in Axes |-> RMul(u[i], k)]

VDiv(u, k) == [i \in Axes |-> RDiv(u[i], k)]

RECURSIVE DotFrom(_, _, _)
DotFrom(u, v, i) == IF i > N THEN Zero ELSE RAdd(RMul(u[i], v[i]), DotFrom(u, v, i + 1))

dot(u, v) == DotFrom(u, v, 1)

squared(u) == dot(u, u)

magnitude(u) == RSqrt(squared(u))

normalized(u) == VDiv(u, magnitude(u))

is_zero(u) == \A i \in Axes : RLe(RAbs(u[i]), EPSILON)

VHasNaN(u) == \E i \in Axes : IsNaN(u[i])

triple_product(a, b, c) == VSub(VScale(b, dot(a, c)), VScale(c, dot(a, b)))

\* ------------------------------------------------------------------------
\* Colliders and bounding boxes (collision.rs)
\* ------------------------------------------------------------------------

Point == [kind |-> "Point", radius |-> Zero, points |-> <<>>]

Sphere(r) == [kind |-> "Sphere", radius |-> r, points |-> <<>>]

Polygon(ps) == [kind |-> "Polygon", radius |-> Zero, points |-> ps]

\* Rotation::rotate_vec under the rotation Rotation::new() gives a body,
\* the angle 0.0: x*cos(0) - y*sin(0) = x and y*cos(0) + x*sin(0) = y.
rotate_vec(v) == v

RECURSIVE PolyExtent(_, _, _, _, _, _)
PolyExtent(points, size, i, k, min, max) ==
    IF k > Len(points) THEN RDiv(RSub(max, min), Int2R(2))
    ELSE LET p == rotate_vec(VScale(points[k], size))[i]
         IN  IF RGt(p, max) THEN PolyExtent(points, size, i, k + 1, min, p)
             ELSE IF RLt(p, min) THEN PolyExtent(points, size, i, k + 1, p, max)
             ELSE PolyExtent(points, size, i, k + 1, min, max)

get_bounding_box(collider, position, size) ==
    CASE collider.kind = "Sphere" ->
           [min |-> [i \in Axes |-> RSub(position[i], RMul(collider.radius, size))],
            max |-> [i \in Axes |-> RAdd(position[i], RMul(collider.radius, size))]]
      [] collider.kind = "Polygon" ->
           LET dist == [i \in Axes |->
                          PolyExtent(collider.points, size, i, 1,
                                     collider.points[1][i], collider.points[1][i])]
           IN  [min |-> VSub(position, dist), max |-> VAdd(position, dist)]
      [] OTHER -> [min |-> position, max |-> position]

overlaps(b1, b2) ==
    \A n \in Axes : RLe(b1.min[n], b2.max[n]) /\ RGe(b1.max[n], b2.min[n])

center(b) == VDiv(VAdd(b.min, b.max), Int2R(2))

\* ------------------------------------------------------------------------
\* Broad phase (collision.rs, possible_collisions)
\* ------------------------------------------------------------------------

\* The result of a call that can panic: either a panic or a value.
Panic == [panic |-> TRUE, pairs |-> <<>>]

Ok(pairs) == [panic |-> FALSE, pairs |-> pairs]

CenterOn(o, n) == center(o.box)[n + 1]

\* objects.sort_by(center[n]) is a stable sort: an element goes before the
\* first element whose centre is greater.
RECURSIVE InsertByCenter(_, _, _)
InsertByCenter(s, x, n) ==
    IF s = <<>> THEN <<x>>
    ELSE IF RGt(CenterOn(Head(s), n), CenterOn(x, n)) THEN <<x>> \o s
    ELSE <<Head(s)>> \o InsertByCenter(Tail(s), x, n)

RECURSIVE SortByCenter(_, _)
SortByCenter(s, n) ==
    IF s = <<>> THEN <<>>
    ELSE InsertByCenter(SortByCenter(SubSeq(s, 1, Len(s) - 1), n), s[Len(s)], n)

\* partial_cmp(..).unwrap() in the comparator panics on a NaN centre.
SortPanics(s, n) == Len(s) >= 2 /\ \E k \in 1..Len(s) : IsNaN(CenterOn(s[k], n))

Median(sorted, n) ==
    LET x == Len(sorted)
    IN  IF x % 2 = 0
        THEN RDiv(RAdd(CenterOn(sorted[(x \div 2) + 1], n), CenterOn(sorted[x \div 2], n)),
                  Int2R(2))
        ELSE CenterOn(sorted[((x - 1) \div 2) + 1], n)

InPartitionA(o, median, n) == RGt(median, o.box.min[n + 1])

InPartitionB(o, median, n) == RLt(median, o.box.min[n + 1])

\* A split by position in the sorted list instead of by value.
PartitionA_ByRank(sorted, median, n) == SubSeq(sorted, 1, (Len(sorted) + 1) \div 2)

PartitionA(sorted, median, n) == SelectSeq(sorted, LAMBDA o : InPartitionA(o, median, n))

PartitionB(sorted, median, n) == SelectSeq(sorted, LAMBDA o : InPartitionB(o, median, n))

\* for (i, a) in s.iter().enumerate() { for b in s.iter().skip(i + 1) { .. } }
RECURSIVE OverlapsAfter(_, _, _)
OverlapsAfter(s, i, j) ==
    IF j > Len(s) THEN <<>>
    ELSE (IF overlaps(s[i].box, s[j].box) THEN <<<<s[i].idx, s[j].idx>>>> ELSE <<>>)
         \o OverlapsAfter(s, i, j + 1)

\* The inner loop without skip(i + 1): every box is also paired with itself.
RECURSIVE AllOverlaps_NoSkip(_, _)
AllOverlaps_NoSkip(s, i) ==
    IF i > Len(s) THEN <<>> ELSE OverlapsAfter(s, i, i) \o AllOverlaps_NoSkip(s, i + 1)

RECURSIVE AllOverlaps(_, _)
AllOverlaps(s, i) ==
    IF i > Len(s) THEN <<>> ELSE OverlapsAfter(s, i, i + 1) \o AllOverlaps(s, i + 1)

Join(r1, r2) == IF r1.panic \/ r2.panic THEN Panic ELSE Ok(r1.pairs \o r2.pairs)

RECURSIVE possible_collisions_recursive(_, _, _)
\* match part.as_mut_slice() { [(a, ba), (b, bb)] => overlap test, p => recurse }
Descend(part, n) ==
    IF Len(part) = 2
    THEN Ok(IF overlaps(part[1].box, part[2].box)
            THEN <<<<part[1].idx, part[2].idx>>>> ELSE <<>>)
    ELSE possible_collisions_recursive(part, (n + 1) % N, 0)

possible_collisions_recursive(objects, n, n_not) ==
    IF SortPanics(objects, n) THEN Panic
    ELSE IF Len(objects) = 0 THEN Ok(<<>>)
    ELSE LET sorted == SortByCenter(objects, n)
             median == Median(sorted, n)
             a == PartitionA(sorted, median, n)
             b == PartitionB(sorted, median, n)
         IN  IF Len(a) = Len(sorted)
             THEN IF n_not >= N THEN Ok(AllOverlaps(a, 1))
                  ELSE possible_collisions_recursive(a, (n + 1) % N, n_not + 1)
             ELSE IF Len(b) = Len(sorted)
             THEN IF n_not >= N THEN Ok(AllOverlaps(b, 1))
                  ELSE possible_collisions_recursive(b, (n + 1) % N, n_not + 1)
             ELSE Join(Descend(a, n), Descend(b, n))

\* The (index, bounding box) list possible_collisions builds.  Indices are
\* those of the slice, 0-based as in the code.
IndexedBoxes(objects) ==
    [k \in 1..Len(objects) |->
        [idx |-> k - 1,
         box |-> get_bounding_box(objects[k].collider, objects[k].position,
                                  objects[k].size)]]

possible_collisions(objects) ==
    IF Len(objects) < 2 THEN Ok(<<>>)
    ELSE possible_collisions_recursive(IndexedBoxes(objects), 0, 0)

\* One call of possible_collisions_recursive still to run: its slice, its
\* axis and its count of splits that did not shrink the slice.
Frame(objects, n, n_not) == [arm |-> "call", objects |-> objects, n |-> n, n_not |-> n_not]

\* The arm of the match for a partition of two boxes: the overlap test.
PairArm(part) == [arm |-> "pair", objects |-> part, n |-> 0, n_not |-> 0]

\* match part.as_mut_slice(): what is to run for a partition.
ArmFor(part, n) == IF Len(part) = 2 THEN PairArm(part) ELSE Frame(part, (n + 1) % N, 0)

\* What one call does by itself: it panics, or it pushes pairs and makes
\* calls.
Does(panic, pairs, calls) == [panic |-> panic, pairs |-> pairs, calls |-> calls]

\* The call that passes the same n_not on when a split does not shrink the
\* slice.
Activation_NoCount(f) ==
    IF f.arm = "pair"
    THEN Does(FALSE, IF overlaps(f.objects[1].box, f.objects[2].box)
                     THEN <<<<f.objects[1].idx, f.objects[2].idx>>>> ELSE <<>>, <<>>)
    ELSE IF SortPanics(f.objects, f.n) THEN Does(TRUE, <<>>, <<>>)
    ELSE IF Len(f.objects) = 0 THEN Does(FALSE, <<>>, <<>>)
    ELSE LET sorted == SortByCenter(f.objects, f.n)
             median == Median(sorted, f.n)
             a == PartitionA(sorted, median, f.n)
             b == PartitionB(sorted, median, f.n)
         IN  IF Len(a) = Len(sorted)
             THEN Does(FALSE, <<>>, <<Frame(a, (f.n + 1) % N, f.n_not)>>)
             ELSE IF Len(b) = Len(sorted)
             THEN Does(FALSE, <<>>, <<Frame(b, (f.n + 1) % N, f.n_not)>>)
             ELSE Does(FALSE, <<>>, <<ArmFor(a, f.n), ArmFor(b, f.n)>>)

\* The body of possible_collisions_recursive for the call f, the calls it
\* makes left to run.
Activation(f) ==
    IF f.arm = "pair"
    THEN Does(FALSE, IF overlaps(f.objects[1].box, f.objects[2].box)
                     THEN <<<<f.objects[1].idx, f.objects[2].idx>>>> ELSE <<>>, <<>>)
    ELSE IF SortPanics(f.objects, f.n) THEN Does(TRUE, <<>>, <<>>)
    ELSE IF Len(f.objects) = 0 THEN Does(FALSE, <<>>, <<>>)
    ELSE LET sorted == SortByCenter(f.objects, f.n)
             median == Median(sorted, f.n)
             a == PartitionA(sorted, median, f.n)
             b == PartitionB(sorted, median, f.n)
         IN  IF Len(a) = Len(sorted)
             THEN IF f.n_not >= N THEN Does(FALSE, AllOverlaps(a, 1), <<>>)
                  ELSE Does(FALSE, <<>>, <<Frame(a, (f.n + 1) % N, f.n_not + 1)>>)
             ELSE IF Len(b) = Len(sorted)
             THEN IF f.n_not >= N THEN Does(FALSE, AllOverlaps(b, 1), <<>>)
                  ELSE Does(FALSE, <<>>, <<Frame(b, (f.n + 1) % N, f.n_not + 1)>>)
             ELSE Does(FALSE, <<>>, <<ArmFor(a, f.n), ArmFor(b, f.n)>>)

\* ------------------------------------------------------------------------
\* Narrow phase (collision.rs, Collider::is_collision)
\* ------------------------------------------------------------------------

\* Option<Vector<N>>, or a panic.
NoCollision == [kind |-> "None", v |-> VZero]

Some(v) == [kind |-> "Some", v |-> v]

Panicked == [kind |-> "Panic", v |-> VZero]

\* .map(|v| -v)
MapNeg(r) == IF r.kind = "Some" THEN Some(VNeg(r.v)) ELSE r

\* The distance taken from the other body to this one reversed.
SphereSphere_Reversed(r1, pos_a, r2, pos_b) ==
    LET distance == VSub(pos_b, pos_a)
        direction == normalized(distance)
        dist == RAbs(magnitude(distance))
    IN  IF RGe(dist, RAdd(r1, r2)) THEN NoCollision
        ELSE Some(VScale(direction, RSub(RAdd(r1, r2), dist)))

SphereSphere(r1, pos_a, r2, pos_b) ==
    LET distance == VSub(pos_a, pos_b)
        direction == normalized(distance)
        dist == RAbs(magnitude(distance))
    IN  IF RGe(dist, RAdd(r1, r2)) THEN NoCollision
        ELSE Some(VScale(direction, RSub(RAdd(r1, r2), dist)))

\* iter().max_by(|v1, v2| v1.dot(d).partial_cmp(&v2.dot(d)).unwrap()): the
\* last of the elements with the greatest dot product.
RECURSIVE MaxByDot(_, _, _, _)
MaxByDot(points, d, k, best) ==
    IF k > Len(points) THEN best
    ELSE IF RGt(dot(best, d), dot(points[k], d)) THEN MaxByDot(points, d, k + 1, best)
    ELSE MaxByDot(points, d, k + 1, points[k])

\* partial_cmp of a NaN is None, and unwrap() panics.
MaxByPanics(points, d) ==
    Len(points) >= 2 /\ \E k \in 1..Len(points) : IsNaN(dot(points[k], d))

support(a, b, d) == VSub(MaxByDot(a, d, 2, a[1]), MaxByDot(b, d, 2, b[1]))

SupportPanics(a, b, d) == MaxByPanics(a, d) \/ MaxByPanics(b, d)

\* The state of the polygon-polygon search: the direction d, the first
\* support point s, the simplex, the number of loop iterations begun, and,
\* once it has returned, the result and the exit taken.
GJKDone(g, result, exit) == [g EXCEPT !.pc = "done", !.result = result, !.exit = exit]

\* Lines 82-103: the seed direction and the first support point.
GJKStart(a, b, pos_a, pos_b) ==
    LET d == normalized(VSub(pos_a, pos_b))
        g == [pc |-> "loop", d |-> d, s |-> VZero, simplex |-> <<>>, iter |-> 0,
              result |-> NoCollision, exit |-> "none"]
    IN  IF SupportPanics(a, b, d) THEN GJKDone(g, Panicked, "panic")
        ELSE LET s == support(a, b, d)
             IN  IF is_zero(s) THEN GJKDone([g EXCEPT !.s = s], NoCollision, "zero_support")
                 ELSE [g EXCEPT !.s = s, !.d = VNeg(normalized(s)), !.simplex = <<s>>]

\* The three-point case without its returning branch: the oldest point is
\* dropped and the search goes on.
SimplexOfThree_NoReturn(g, simplex) == [g EXCEPT !.simplex = Tail(simplex)]

\* Lines 120-134: the simplex has three points.
SimplexOfThree(g, simplex) ==
    LET z == simplex[1]
        y == simplex[2]
        x == simplex[3]
        xy == VSub(y, x)
        xz == VSub(z, x)
        xy_perp == triple_product(xz, xy, xy)
        xz_perp == triple_product(xy, xz, xz)
    IN  IF RGt(dot(xy_perp, VNeg(x)), Zero)
        THEN [g EXCEPT !.simplex = Tail(simplex), !.d = normalized(xy_perp)]
        ELSE IF RGt(dot(xz_perp, VNeg(x)), Zero)
        THEN [g EXCEPT !.simplex = <<simplex[1]>> \o SubSeq(simplex, 3, Len(simplex)),
                       !.d = normalized(xz_perp)]
        ELSE GJKDone([g EXCEPT !.simplex = simplex], NoCollision, "enclosed")

\* Lines 105-136: one iteration of the loop.
GJKIterate(a, b, g0) ==
    LET g == [g0 EXCEPT !.iter = g0.iter + 1]
    IN  IF SupportPanics(a, b, g.d) THEN GJKDone(g, Panicked, "panic")
        ELSE LET x == support(a, b, g.d)
                 simplex == Append(g.simplex, x)
             IN  IF is_zero(g.s) THEN GJKDone(g, NoCollision, "zero_support")
                 ELSE IF RLt(dot(x, g.d), Zero) THEN GJKDone(g, NoCollision, "separated")
                 ELSE IF Len(simplex) = 2
                 THEN LET xy == VSub(simplex[1], simplex[2])
                      IN  [g EXCEPT !.simplex = simplex,
                                    !.d = normalized(triple_product(xy, VNeg(simplex[2]), xy))]
                 ELSE SimplexOfThree(g, simplex)

RECURSIVE GJKRun(_, _, _)
GJKRun(a, b, g) == IF g.pc = "done" THEN g.result ELSE GJKRun(a, b, GJKIterate(a, b, g))

PolygonPolygon(a, pos_a, b, pos_b) == GJKRun(a, b, GJKStart(a, b, pos_a, pos_b))

\* The match of is_collision, its arms in the order of the code.
RECURSIVE is_collision(_, _, _, _)
is_collision(self, pos, other, other_pos) ==
    CASE other.kind = "Point" \/ self.kind = "Point" -> NoCollision
      [] self.kind = "Sphere" /\ other.kind = "Sphere" ->
           SphereSphere(self.radius, pos, other.radius, other_pos)
      [] self.kind = "Polygon" /\ other.kind = "Sphere" -> Panicked
      [] self.kind = "Sphere" /\ other.kind = "Polygon" ->
           MapNeg(is_collision(other, other_pos, self, pos))
      [] OTHER -> PolygonPolygon(self.points, pos, other.points, other_pos)

\* ------------------------------------------------------------------------
\* State
\* ------------------------------------------------------------------------

VARIABLES
    objects,          \* Universe::objects, a Vec<Object<N>>
    electric_fields,  \* Universe::electric_fields, a Vec<(Scalar, VectorField)>
    status,           \* "ok", or "panicked" once a call has panicked
    nextUid,          \* ghost: number of bodies ever added, names the next one
    issued,           \* ghost: uid -> the ObjectID add_object returned for it
    steps,            \* ghost: number of step calls so far
    stale,            \* ghost: uids of bodies that had a body before them removed
    bp_orig,          \* broad phase: the body list as first given
    bp_objects,       \* broad phase: the body list, possibly permuted
    bp_result,        \* broad phase: what possible_collisions returned
    bp_stack,         \* broad phase: the calls of the recursion still to run
    nar_a,            \* narrow phase: the body is_collision is called on
    nar_b,            \* narrow phase: the other body
    nar,              \* narrow phase: the state of the call
    rs_before,        \* resolution: the body list resolve_collisions is given
    rs_after,         \* resolution: the body list it leaves
    call,             \* quantity layer: the function called and its arguments
    ret,              \* quantity layer: what the call returned
    st                \* step: where a call of step is, and what it has seen

vars == <<objects, electric_fields, status, nextUid, issued, steps, stale,
          bp_orig, bp_objects, bp_result, bp_stack, nar_a, nar_b, nar, rs_before,
          rs_after, call, ret, st>>

universeVars == <<objects, electric_fields, status, nextUid, issued, steps, stale>>

broadVars == <<bp_orig, bp_objects, bp_result, bp_stack>>

narrowVars == <<nar_a, nar_b, nar>>

resolveVars == <<rs_before, rs_after>>

callVars == <<call, ret>>

\* An Object<N>: velocity is the 4-slot history, position is
\* transform[1].position and prev_position is transform[0].position.
\* uid is a ghost identity, no field of the code.
Body(uid, position, velocity, mass, charge, collider, is_static, e) ==
    [uid |-> uid,
     position |-> position,
     prev_position |-> position,
     velocity |-> <<velocity, velocity, velocity, velocity>>,
     mass |-> mass,
     charge |-> charge,
     collider |-> collider,
     size |-> One,
     is_static |-> is_static,
     restitution_coefficient |-> e]

UniverseIdle ==
    /\ objects = <<>>
    /\ electric_fields = <<>>
    /\ status = "ok"
    /\ nextUid = 0
    /\ issued = <<>>
    /\ steps = 0
    /\ stale = {}

NoResult == [done |-> FALSE, panic |-> FALSE, pairs |-> <<>>]

BroadIdle ==
    /\ bp_orig = <<>>
    /\ bp_objects = <<>>
    /\ bp_result = NoResult
    /\ bp_stack = <<>>

\* No call of is_collision has begun.
NarrowCalled ==
    [pc |-> "idle", d |-> VZero, s |-> VZero, simplex |-> <<>>, iter |-> 0,
     result |-> NoCollision, exit |-> "none"]

NarrowIdle ==
    /\ nar_a = <<>>
    /\ nar_b = <<>>
    /\ nar = NarrowCalled

NotResolved == [done |-> FALSE, panic |-> FALSE, objects |-> <<>>, collisions |-> <<>>]

ResolveIdle ==
    /\ rs_before = <<>>
    /\ rs_after = NotResolved

\* No function of the quantity layer has been called.
CallIdle ==
    /\ call = [op |-> "none"]
    /\ ret = [kind |-> "none"]

\* No call of step is under way.
NotStepping ==
    [pc |-> "idle", dt |-> Zero, i |-> 0, k |-> 0, entry |-> <<>>, seen |-> <<>>,
     found |-> <<>>]

StepIdle == st = NotStepping

\* ------------------------------------------------------------------------
\* The broad phase applied to lists of bodies
\* ------------------------------------------------------------------------

\* Longest body list given to possible_collisions.
MaxBroad == 3

BroadPositions == <<Vec(0, 0), Vec(1, 0), Vec(2, 0), Vec(0, 1)>>

BroadColliders == <<Point, Sphere(Int2R(1)), Sphere(Int2R(2))>>

NumBroadBodies == Len(BroadPositions) * Len(BroadColliders)

BroadBody(uid, k) ==
    Body(uid, BroadPositions[((k - 1) % Len(BroadPositions)) + 1], VZero, One, Zero,
         BroadColliders[((k - 1) \div Len(BroadPositions)) + 1], FALSE, One)

BroadInit ==
    /\ UniverseIdle
    /\ NarrowIdle
    /\ ResolveIdle
    /\ CallIdle
    /\ StepIdle
    /\ \E len \in 0..MaxBroad :
         \E f \in [1..len -> 1..NumBroadBodies] :
            /\ \A i \in 1..len : \A j \in 1..len : i < j => f[i] <= f[j]
            /\ bp_orig = [i \in 1..len |-> BroadBody(i, f[i])]
    /\ bp_objects = bp_orig
    /\ bp_result = NoResult
    /\ bp_stack = <<>>

\* The caller passes the same bodies in another order.
BroadSwap ==
    /\ \E i \in 1..(Len(bp_objects) - 1) :
         bp_objects' = [bp_objects EXCEPT ![i] = bp_objects[i + 1],
                                          ![i + 1] = bp_objects[i]]
    /\ bp_result' = NoResult
    /\ UNCHANGED <<bp_orig, bp_stack, universeVars, narrowVars, resolveVars, callVars, st>>

BroadRun ==
    /\ ~bp_result.done
    /\ LET r == possible_collisions(bp_objects)
       IN  bp_result' = [done |-> TRUE, panic |-> r.panic, pairs |-> r.pairs]
    /\ UNCHANGED <<bp_orig, bp_objects, bp_stack, universeVars, narrowVars, resolveVars, callVars, st>>

BroadNext == BroadSwap \/ BroadRun

BroadSpec == BroadInit /\ [][BroadNext]_vars

Range(s) == {s[i] : i \in 1..Len(s)}

\* The unordered pairs of a pair list over the bodies of a list, each body
\* named by its uid.
UidPairs(pairs, bodies) ==
    {{bodies[p[1] + 1].uid, bodies[p[2] + 1].uid} : p \in Range(pairs)}

\* ------------------------------------------------------------------------
\* The narrow phase applied to pairs of bodies
\* ------------------------------------------------------------------------

\* Most iterations of the simplex loop the model follows.
MaxGJKIter == 4

Half == Rat(1, 2)

NarrowPositions ==
    {Vec(0, 0), Vec(1, 0), <<Rat(3, 2), Zero>>, Vec(2, 0), Vec(3, 0), Vec(0, 1),
     Vec(3, 4), Vec(1, 1)}

Square(x, y) == Polygon(<<Vec(x, y), Vec(x + 1, y), Vec(x + 1, y + 1), Vec(x, y + 1)>>)

Triangle(x, y) == Polygon(<<Vec(x, y), Vec(x + 2, y), Vec(x, y + 2)>>)

NarrowColliders ==
    {Point, Sphere(One), Sphere(Half), Square(0, 0), Square(1, 0), Square(3, 0),
     Square(-1, -1),
     Triangle(0, 0), Triangle(-1, -1), Triangle(1, 1)}

NarrowInit ==
    /\ UniverseIdle
    /\ BroadIdle
    /\ NarrowIdle
    /\ ResolveIdle
    /\ CallIdle
    /\ StepIdle

\* The caller chooses the two bodies of a call.
NarrowPick ==
    /\ nar.pc = "idle"
    /\ nar_a' \in [collider : NarrowColliders, position : NarrowPositions]
    /\ nar_b' \in [collider : NarrowColliders, position : NarrowPositions]
    /\ nar' = [nar EXCEPT !.pc = "call"]
    /\ UNCHANGED <<universeVars, broadVars, resolveVars, callVars, st>>

IsPolygonPair ==
    /\ nar.pc # "idle"
    /\ nar_a.collider.kind = "Polygon"
    /\ nar_b.collider.kind = "Polygon"

\* is_collision is called; for two polygons the call reaches the loop or
\* returns before it, for every other pair it returns.
NarrowCall ==
    /\ nar.pc = "call"
    /\ nar' = IF IsPolygonPair
              THEN GJKStart(nar_a.collider.points, nar_b.collider.points,
                            nar_a.position, nar_b.position)
              ELSE GJKDone(nar, is_collision(nar_a.collider, nar_a.position,
                                             nar_b.collider, nar_b.position), "dispatch")
    /\ UNCHANGED <<nar_a, nar_b, universeVars, broadVars, resolveVars, callVars, st>>

\* One iteration of the simplex loop.
GJKLoop ==
    /\ nar.pc = "loop"
    /\ nar.iter < MaxGJKIter
    /\ nar' = GJKIterate(nar_a.collider.points, nar_b.collider.points, nar)
    /\ UNCHANGED <<nar_a, nar_b, universeVars, broadVars, resolveVars, callVars, st>>

NarrowNext == NarrowPick \/ NarrowCall \/ GJKLoop

NarrowSpec == NarrowInit /\ [][NarrowNext]_vars

BoxOf(o) == get_bounding_box(o.collider, o.position, o.size)

\* The brute-force O(n^2) set: the pairs of distinct bodies whose bounding
\* boxes overlap.
OverlapSet(bodies) ==
    {{bodies[i].uid, bodies[j].uid} : <<i, j>> \in
        {q \in (1..Len(bodies)) \X (1..Len(bodies)) :
            q[1] < q[2] /\ overlaps(BoxOf(bodies[q[1]]), BoxOf(bodies[q[2]]))}}

\* C1: broad-phase soundness.  The pair list possible_collisions returns
\* contains, as an unordered pair, every pair of distinct bodies whose
\* bounding boxes overlap.
C1_BroadPhaseSound ==
    bp_result.done /\ ~bp_result.panic =>
        OverlapSet(bp_objects) \subseteq UidPairs(bp_result.pairs, bp_objects)

\* What possible_collisions returned is what it returns for the order first
\* given: the same panic, or the same set of unordered pairs of bodies.
SameAsFirstOrder(first) ==
    /\ bp_result.panic = first.panic
    /\ UidPairs(bp_result.pairs, bp_objects) = UidPairs(first.pairs, bp_orig)

\* C8: broad-phase order-independence.  Whatever the order in which the
\* bodies are passed, possible_collisions returns the same set of unordered
\* pairs of bodies as for the order first given.
C8_OrderIndependent == bp_result.done => SameAsFirstOrder(possible_collisions(bp_orig))

\* A permuted list of three bodies for which pairs are returned.
C8_Witness ==
    /\ bp_result.done
    /\ Len(bp_objects) = 3
    /\ bp_objects # bp_orig
    /\ bp_result.pairs # <<>>


C4_DispatchExhaustive == nar.pc = "done" => nar.result.kind # "Panic"

\* C5: for two polygons, is_collision returns a contact vector when the
\* first support point is zero and when the three-point simplex is found to
\* enclose the origin, and returns no collision only when a support point x
\* has dot(x, d) < 0.
C5_PolygonCollisionReported ==
    IsPolygonPair /\ nar.pc = "done" =>
        /\ nar.exit \in {"zero_support", "enclosed"} => nar.result.kind = "Some"
        /\ nar.result.kind = "None" => nar.exit = "separated"

IsSpherePair ==
    /\ nar.pc # "idle"
    /\ nar_a.collider.kind = "Sphere"
    /\ nar_b.collider.kind = "Sphere"

Parallel(u, v) == \A i \in Axes : \A j \in Axes : RMul(u[i], v[j]) = RMul(u[j], v[i])

\* C6: for two spheres with distinct centres and d = posA - posB,
\* is_collision returns no collision exactly when |d| >= rA + rB, and
\* otherwise a vector in the direction of d of magnitude rA + rB - |d|.
\* Stated for the centres whose distance is rational.
C6_SphereSphere ==
    IsSpherePair /\ nar.pc = "done" /\ nar_a.position # nar_b.position
                 /\ IsSquare(squared(VSub(nar_a.position, nar_b.position))) =>
        LET d == VSub(nar_a.position, nar_b.position)
            R == RAdd(nar_a.collider.radius, nar_b.collider.radius)
            depth == RSub(R, RSqrt(squared(d)))
        IN  /\ nar.result.kind \in {"None", "Some"}
            /\ nar.result.kind = "None" <=> RGe(squared(d), RMul(R, R))
            /\ nar.result.kind = "Some" =>
                  /\ Parallel(nar.result.v, d)
                  /\ RGt(dot(nar.result.v, d), Zero)
                  /\ squared(nar.result.v) = RMul(depth, depth)
                  /\ RGt(depth, Zero)

\* Unit spheres at (0,0) and (1.5,0): a contact vector of magnitude 0.5.
C6_Witness ==
    /\ IsSpherePair
    /\ nar.pc = "done"
    /\ nar_a.collider.radius = One /\ nar_b.collider.radius = One
    /\ nar_a.position = Vec(0, 0)
    /\ nar_b.position = <<Rat(3, 2), Zero>>
    /\ nar.result = Some(<<Rat(-1, 2), Zero>>)

\* ------------------------------------------------------------------------
\* The Universe (universe.rs, object.rs)
\* ------------------------------------------------------------------------

\* constants::c, the speed with which a field spreads.
c == Int2R(1000)

\* constants::k_e().  The charges of the model are measured in the unit in
\* which the Coulomb constant is 1.
k_e == One

\* The list of (charge, position) a field closure captures.
charge_pos(objs) ==
    [i \in 1..Len(objs) |-> [charge |-> objs[i].charge, pos |-> objs[i].position]]

\* charge_pos.iter().fold(zero, ..) over the first i entries.
RECURSIVE CoulombFold(_, _, _)
CoulombFold(cp, x, i) ==
    IF i = 0 THEN VZero
    ELSE LET field == CoulombFold(cp, x, i - 1)
             r == VSub(x, cp[i].pos)
         IN  IF is_zero(r) THEN field
             ELSE VAdd(field, VScale(normalized(r), RDiv(cp[i].charge, dot(r, r))))

\* The closure pushed by update_electric_field, applied to x.
CoulombField(cp, x) == VScale(CoulombFold(cp, x, Len(cp)), k_e)

\* Every entry ages by dt and a new entry of age dt is pushed.
update_electric_field(efs, objs, dt) ==
    Append([i \in 1..Len(efs) |-> [efs[i] EXCEPT !.t = RAdd(@, dt)]],
           [t |-> dt, charge_pos |-> charge_pos(objs)])

\* VectorField::impose, applied for the entries 1..k in turn, then at(x):
\* the entry imposed last is asked first.
RECURSIVE ImposedAt(_, _, _)
ImposedAt(efs, k, x) ==
    IF k = 0 THEN VZero
    ELSE LET s == RMul(efs[k].t, c)
         IN  IF RLt(squared(x), RMul(s, s)) THEN CoulombField(efs[k].charge_pos, x)
             ELSE ImposedAt(efs, k - 1, x)

\* self.electric_field().at(x)
electric_field(efs, x) == ImposedAt(efs, Len(efs), x)

\* Object::update with the weighted sum of the history multiplied by 3.0
\* before it is divided by 8.0.
update_TripleWeight(o, dt, force) ==
    LET acceleration == VDiv(force, o.mass)
        velocity == VAdd(VScale(acceleration, dt),
                         VDiv(VScale(VAdd(VAdd(VAdd(o.velocity[1],
                                                    VScale(o.velocity[2], Int2R(3))),
                                               VScale(o.velocity[3], Int2R(3))),
                                          o.velocity[4]),
                                     Int2R(3)),
                              Int2R(8)))
    IN  [o EXCEPT !.prev_position = o.position,
                  !.position = VAdd(o.position, VScale(velocity, dt)),
                  !.velocity = <<o.velocity[2], o.velocity[3], o.velocity[4], velocity>>]

\* Object::update with the position assigned (=) where the code adds (+=).
update_Assigned(o, dt, force) ==
    LET acceleration == VDiv(force, o.mass)
        velocity == VAdd(VScale(acceleration, dt),
                         VDiv(VAdd(VAdd(VAdd(o.velocity[1],
                                             VScale(o.velocity[2], Int2R(3))),
                                        VScale(o.velocity[3], Int2R(3))),
                                   o.velocity[4]),
                              Int2R(8)))
    IN  [o EXCEPT !.prev_position = o.position,
                  !.position = VScale(velocity, dt),
                  !.velocity = <<o.velocity[2], o.velocity[3], o.velocity[4], velocity>>]

\* Object::update, with the acceleration force / mass.
update(o, dt, force) ==
    LET acceleration == VDiv(force, o.mass)
        velocity == VAdd(VScale(acceleration, dt),
                         VDiv(VAdd(VAdd(VAdd(o.velocity[1],
                                             VScale(o.velocity[2], Int2R(3))),
                                        VScale(o.velocity[3], Int2R(3))),
                                   o.velocity[4]),
                              Int2R(8)))
    IN  [o EXCEPT !.prev_position = o.position,
                  !.position = VAdd(o.position, VScale(velocity, dt)),
                  !.velocity = <<o.velocity[2], o.velocity[3], o.velocity[4], velocity>>]

\* The loop of step: every object is updated under the field of this step.
Integrate(objs, efs, dt) ==
    [i \in 1..Len(objs) |->
        update(objs[i], dt, VScale(electric_field(efs, objs[i].position), objs[i].charge))]

\* find_collisions: the confirmed pairs in the order of the broad phase, or
\* a panic of the broad or of the narrow phase.
\* One turn of the loop of find_collisions: the pair (a, b), what
\* is_collision returned for it, and the collisions of the later pairs.
Confirm(a, b, hit, rest) ==
    IF hit.kind = "Panic" \/ rest.panic THEN [panic |-> TRUE, collisions |-> <<>>]
    ELSE IF hit.kind = "Some"
    THEN [rest EXCEPT !.collisions =
             <<[obj_a |-> a, obj_b |-> b, normal |-> hit.v]>> \o rest.collisions]
    ELSE rest

narrow_phase(obj_a, obj_b) ==
    is_collision(obj_a.collider, obj_a.position, obj_b.collider, obj_b.position)

RECURSIVE ConfirmPairs(_, _, _)
ConfirmPairs(objs, pairs, k) ==
    IF k > Len(pairs) THEN [panic |-> FALSE, collisions |-> <<>>]
    ELSE Confirm(pairs[k][1], pairs[k][2],
                 narrow_phase(objs[pairs[k][1] + 1], objs[pairs[k][2] + 1]),
                 ConfirmPairs(objs, pairs, k + 1))

ConfirmPossible(objs, possible) ==
    IF possible.panic THEN [panic |-> TRUE, collisions |-> <<>>]
    ELSE ConfirmPairs(objs, possible.pairs, 1)

find_collisions(objs) == ConfirmPossible(objs, possible_collisions(objs))

set_velocity(o, v) == [o EXCEPT !.velocity = <<v, v, v, v>>]

set_position(o, x) == [o EXCEPT !.position = x]

\* The body of the loop with the impulse divided by the mass of A for both
\* bodies.
ResolveOne_MassOfA(objs, col) ==
    LET ia == col.obj_a + 1
        ib == col.obj_b + 1
        a == objs[ia]
        b == objs[ib]
        u_a == a.velocity[4]
        u_b == b.velocity[4]
        e == RMax(a.restitution_coefficient, b.restitution_coefficient)
        n == normalized(col.normal)
        j == VScale(n, RDiv(RMul(RNeg(RAdd(One, e)), dot(VSub(u_a, u_b), n)),
                            RAdd(RDiv(One, a.mass), RDiv(One, b.mass))))
        half == VDiv(col.normal, Int2R(2))
        new_a == set_position(set_velocity(a, VAdd(u_a, VDiv(j, a.mass))),
                              VAdd(a.position, half))
        new_b == set_position(set_velocity(b, VSub(u_b, VDiv(j, a.mass))),
                              VSub(b.position, half))
    IN  IF a.is_static /\ b.is_static THEN objs
        ELSE IF ~a.is_static /\ ~b.is_static
        THEN [[objs EXCEPT ![ia] = new_a] EXCEPT ![ib] = new_b]
        ELSE IF ~a.is_static THEN [objs EXCEPT ![ia] = new_a]
        ELSE [objs EXCEPT ![ib] = new_b]

\* The body of the loop of resolve_collisions for one collision.
ResolveOne(objs, col) ==
    LET ia == col.obj_a + 1
        ib == col.obj_b + 1
        a == objs[ia]
        b == objs[ib]
        u_a == a.velocity[4]
        u_b == b.velocity[4]
        e == RMax(a.restitution_coefficient, b.restitution_coefficient)
        n == normalized(col.normal)
        j == VScale(n, RDiv(RMul(RNeg(RAdd(One, e)), dot(VSub(u_a, u_b), n)),
                            RAdd(RDiv(One, a.mass), RDiv(One, b.mass))))
        half == VDiv(col.normal, Int2R(2))
        new_a == set_position(set_velocity(a, VAdd(u_a, VDiv(j, a.mass))),
                              VAdd(a.position, half))
        new_b == set_position(set_velocity(b, VSub(u_b, VDiv(j, b.mass))),
                              VSub(b.position, half))
    IN  IF a.is_static /\ b.is_static THEN objs
        ELSE IF ~a.is_static /\ ~b.is_static
        THEN [[objs EXCEPT ![ia] = new_a] EXCEPT ![ib] = new_b]
        ELSE IF ~a.is_static THEN [objs EXCEPT ![ia] = new_a]
        ELSE [objs EXCEPT ![ib] = new_b]

RECURSIVE ResolveFrom(_, _, _)
ResolveFrom(objs, collisions, k) ==
    IF k > Len(collisions) THEN objs
    ELSE ResolveFrom(ResolveOne(objs, collisions[k]), collisions, k + 1)

\* resolve_collisions: the list it leaves and the collisions its loop went
\* through, or a panic of find_collisions, which comes before the first
\* body is touched.
ResolveFound(objs, found) ==
    IF found.panic
    THEN [done |-> TRUE, panic |-> TRUE, objects |-> objs, collisions |-> <<>>]
    ELSE [done |-> TRUE, panic |-> FALSE,
          objects |-> ResolveFrom(objs, found.collisions, 1),
          collisions |-> found.collisions]

resolve_collisions(objs) == ResolveFound(objs, find_collisions(objs))

\* ------------------------------------------------------------------------
\* resolve_collisions applied to pairs of bodies
\* ------------------------------------------------------------------------

ResolveVelocities == {Vec(0, 0), Vec(1, 0), Vec(-1, 0), Vec(3, 4), Vec(-3, -4), Vec(0, 1)}

ResolveMasses == {One, Int2R(2)}

ResolveRestitutions == {Zero, Half, One}

\* Where the second sphere is; the first is at the origin, both of radius 3.
ResolvePositions == {Vec(1, 0), Vec(3, 4), Vec(0, -2), Vec(8, 0)}

ResolveBody(uid, position, p) ==
    Body(uid, position, p.velocity, p.mass, Zero, Sphere(Int2R(3)), p.is_static, p.e)

ResolveParams ==
    [velocity : ResolveVelocities, mass : ResolveMasses, is_static : BOOLEAN,
     e : ResolveRestitutions]

ResolveInit ==
    /\ UniverseIdle
    /\ BroadIdle
    /\ NarrowIdle
    /\ ResolveIdle
    /\ CallIdle
    /\ StepIdle

\* The caller chooses the two bodies.
ResolvePick ==
    /\ rs_before = <<>>
    /\ \E pa \in ResolveParams : \E pb \in ResolveParams : \E x \in ResolvePositions :
          rs_before' = <<ResolveBody(0, VZero, pa), ResolveBody(1, x, pb)>>
    /\ UNCHANGED <<rs_after, universeVars, broadVars, narrowVars, callVars, st>>

ResolveRun ==
    /\ rs_before # <<>>
    /\ ~rs_after.done
    /\ rs_after' = resolve_collisions(rs_before)
    /\ UNCHANGED <<rs_before, universeVars, broadVars, narrowVars, callVars, st>>

ResolveNext == ResolvePick \/ ResolveRun

ResolveSpec == ResolveInit /\ [][ResolveNext]_vars

\* The pair given to resolve_collisions is a head-on collision of two
\* non-static bodies of equal mass whose larger restitution coefficient is
\* 1: the velocities are v and -v, v not zero, along the contact normal found.
HeadOn ==
    /\ rs_after.done /\ ~rs_after.panic
    /\ ~rs_before[1].is_static /\ ~rs_before[2].is_static
    /\ rs_before[1].mass = rs_before[2].mass
    /\ One \in {rs_before[1].restitution_coefficient,
                 rs_before[2].restitution_coefficient}
    /\ RLe(rs_before[1].restitution_coefficient, One)
    /\ RLe(rs_before[2].restitution_coefficient, One)
    /\ rs_before[2].velocity[4] = VNeg(rs_before[1].velocity[4])
    /\ rs_before[1].velocity[4] # VZero
    /\ LET found == find_collisions(rs_before).collisions
       IN  /\ Len(found) = 1
           /\ IsSquare(squared(found[1].normal))
           /\ Parallel(rs_before[1].velocity[4], found[1].normal)

\* C7: resolving a head-on collision of two non-static bodies of equal mass
\* with restitution 1 and velocities v and -v along the contact normal
\* exchanges the velocities: body A ends with -v and body B with v.
C7_HeadOnExchange ==
    HeadOn =>
        /\ rs_after.objects[1].velocity[4] = VNeg(rs_before[1].velocity[4])
        /\ rs_after.objects[2].velocity[4] = rs_before[1].velocity[4]

\* A at the origin moving with (3, 4) towards B at (3, 4), which moves with
\* (-3, -4): resolved, A moves with (-3, -4) and B with (3, 4).
C7_Witness ==
    /\ HeadOn
    /\ rs_before[1].velocity[4] = Vec(3, 4)
    /\ rs_before[2].position = Vec(3, 4)
    /\ rs_before[1].restitution_coefficient = Half
    /\ rs_after.objects[1].velocity[4] = Vec(-3, -4)
    /\ rs_after.objects[2].velocity[4] = Vec(3, 4)

\* ------------------------------------------------------------------------
\* The Universe under its public operations
\* ------------------------------------------------------------------------

\* Most bodies ever added to the universe.
MaxAdds == 2

\* Most calls of step.
MaxSteps == 1

\* The bodies a caller adds: spheres that meet head-on, a static sphere that
\* moves and carries a charge, a charged point, a static charged sphere at
\* rest, a polygon, a point without mass at rest, and an uncharged point of
\* mass 2 at rest.
UniverseBodies ==
    <<Body(0, Vec(0, 0), Vec(1, 0), One, Zero, Sphere(One), FALSE, One),
      Body(0, Vec(3, 0), Vec(-1, 0), One, Zero, Sphere(One), FALSE, One),
      Body(0, Vec(3, 0), Vec(-1, 0), Int2R(2), One, Sphere(One), TRUE, Half),
      Body(0, Vec(0, 0), Vec(0, 0), One, One, Point, FALSE, One),
      Body(0, Vec(3, 0), Vec(0, 0), One, One, Sphere(One), TRUE, One),
      Body(0, Vec(1, 0), Vec(0, 0), One, Zero, Square(0, 0), FALSE, One),
      Body(0, Vec(0, 0), Vec(0, 0), Zero, Zero, Point, FALSE, One),
      Body(0, Vec(6, 0), Vec(0, 0), Int2R(2), Zero, Point, FALSE, Zero)>>

\* The values of dt a caller passes to step.
StepSizes == {Zero, One}

Init ==
    /\ UniverseIdle
    /\ BroadIdle
    /\ NarrowIdle
    /\ ResolveIdle
    /\ CallIdle
    /\ StepIdle

\* Vec::insert(0, object) in place of Vec::push.
add_object_AtFront(objs, o) == [objects |-> <<o>> \o objs, id |-> Len(objs)]

\* add_object: the list after the push and the ObjectID returned.
add_object(objs, o) ==
    LET pushed == Append(objs, o)
    IN  [objects |-> pushed, id |-> Len(pushed) - 1]

\* Vec::remove(index): the later elements shift down; it panics when the
\* index is out of bounds.
delete_object(objs, id) ==
    IF id >= Len(objs) THEN [panic |-> TRUE, objects |-> objs]
    ELSE [panic |-> FALSE,
          objects |-> SubSeq(objs, 1, id) \o SubSeq(objs, id + 2, Len(objs))]

\* Vec::retain(f): the elements for which f returns true stay, in order.
\* The closure is an FnMut, it can tell any two elements apart: f is the
\* set of places whose element it returns true for.
RECURSIVE Retain(_, _, _)
Retain(objs, f, k) ==
    IF k > Len(objs) THEN <<>>
    ELSE (IF k \in f THEN <<objs[k]>> ELSE <<>>) \o Retain(objs, f, k + 1)

remove_objects(objs, f) == Retain(objs, f, 1)

AddObject ==
    /\ status = "ok"
    /\ nextUid < MaxAdds
    /\ \E k \in 1..Len(UniverseBodies) :
         LET added == add_object(objects, [UniverseBodies[k] EXCEPT !.uid = nextUid])
         IN  /\ objects' = added.objects
             /\ issued' = Append(issued, added.id)
    /\ nextUid' = nextUid + 1
    /\ UNCHANGED <<electric_fields, status, steps, stale, broadVars, narrowVars, resolveVars, callVars, st>>

DeleteObject ==
    /\ status = "ok"
    /\ \E id \in 0..Len(objects) :
         LET deleted == delete_object(objects, id)
         IN  /\ objects' = deleted.objects
             /\ status' = IF deleted.panic THEN "panicked" ELSE "ok"
             /\ stale' = IF deleted.panic THEN stale
                         ELSE stale \cup {objects[i].uid : i \in (id + 2)..Len(objects)}
    /\ UNCHANGED <<electric_fields, nextUid, issued, steps, broadVars, narrowVars, resolveVars, callVars, st>>

RemoveObjects ==
    /\ status = "ok"
    /\ \E f \in SUBSET (1..Len(objects)) :
         /\ objects' = remove_objects(objects, f)
         /\ stale' = stale \cup {objects[i].uid : i \in
                                   {k \in f : \E m \in 1..(k - 1) : m \notin f}}
    /\ UNCHANGED <<electric_fields, status, nextUid, issued, steps, broadVars, narrowVars, resolveVars, callVars, st>>

\* step(dt): the field is updated, every object is integrated under it,
\* and the collisions found afterwards are resolved.  A panic of
\* resolve_collisions leaves the objects as integrated.
Stepped(fields, resolved) ==
    [objects |-> resolved.objects, electric_fields |-> fields, panic |-> resolved.panic]

StepUnder(objs, fields, dt) ==
    Stepped(fields, resolve_collisions(Integrate(objs, fields, dt)))

step(objs, efs, dt) == StepUnder(objs, update_electric_field(efs, objs, dt), dt)

\* The universe after a call: what the call left, and whether it panicked.
Returned(r) ==
    /\ objects' = r.objects
    /\ electric_fields' = r.electric_fields
    /\ status' = IF r.panic THEN "panicked" ELSE "ok"

Step ==
    /\ status = "ok"
    /\ steps < MaxSteps
    /\ \E dt \in StepSizes : Returned(step(objects, electric_fields, dt))
    /\ steps' = steps + 1
    /\ UNCHANGED <<nextUid, issued, stale, broadVars, narrowVars, resolveVars, callVars, st>>

Next == AddObject \/ DeleteObject \/ RemoveObjects \/ Step

Spec == Init /\ [][Next]_vars

\* C2: for every body whose is_static attribute is true, the position and
\* the four slots of the velocity are the same after step(dt) as before.
C2_StaticUnchanged ==
    [][steps' = steps + 1 =>
         \A i \in 1..Len(objects) :
            objects[i].is_static =>
               /\ objects'[i].position = objects[i].position
               /\ objects'[i].velocity = objects[i].velocity]_vars

\* C9: step carries no state from one step to the next other than the
\* positions and the velocities of the bodies; the list of fields is, after
\* any number of steps, what it was before the first.
C9_NoStateAcrossSteps == electric_fields = <<>>

\* The body the ObjectID issued for uid designates: the uid found at that
\* index of objects.
Designates(k) == issued[objects[k].uid + 1] = k - 1

\* C10 as claimed: the ID add_object returned for a body that has not been
\* removed still designates that body, whatever calls were made since.
C10_IdStableWhileAlive == \A k \in 1..Len(objects) : Designates(k)

\* C10: the ID add_object returned for a body that has not been removed
\* still designates that body as long as no body placed before it in
\* objects has been removed.
C10_IdStableUnlessEarlierRemoved ==
    \A k \in 1..Len(objects) : objects[k].uid \notin stale => Designates(k)

\* Two bodies were added, the second was removed and a step was taken: the
\* ID of the first still designates it.
C10_Witness ==
    /\ nextUid = 2
    /\ steps = 1
    /\ Len(objects) = 1
    /\ objects[1].uid = 0
    /\ stale = {}
    /\ Designates(1)

\* The universe holds one body, not static, at rest in all four slots of its
\* velocity, and the force the step just taken computed for it is zero.
AloneAtRest ==
    /\ steps' = steps + 1
    /\ Len(objects) = 1
    /\ ~objects[1].is_static
    /\ objects[1].velocity = <<VZero, VZero, VZero, VZero>>
    /\ VScale(electric_field(electric_fields', objects[1].position),
              objects[1].charge) = VZero

StaysAtRest ==
    /\ Len(objects') = 1
    /\ objects'[1].position = objects[1].position
    /\ objects'[1].velocity = <<VZero, VZero, VZero, VZero>>

LastDt == electric_fields'[Len(electric_fields')].t

\* A step with a dt other than zero of a universe of two uncharged bodies of
\* positive mass, at rest at different places.
TwoMassiveAtRest ==
    /\ steps' = steps + 1
    /\ LastDt # Zero
    /\ Len(objects) = 2
    /\ \A i \in 1..2 :
          /\ objects[i].charge = Zero
          /\ RGt(objects[i].mass, Zero)
          /\ objects[i].velocity = <<VZero, VZero, VZero, VZero>>
    /\ objects[1].position # objects[2].position

\* C12: the force step integrates includes the gravity of every other body;
\* after one step two uncharged massive bodies that were at rest each move
\* towards the other.
C12_GravityAttracts ==
    [][TwoMassiveAtRest =>
         /\ Len(objects') = 2
         /\ RGt(dot(objects'[1].velocity[4],
                    VSub(objects[2].position, objects[1].position)), Zero)
         /\ RGt(dot(objects'[2].velocity[4],
                    VSub(objects[1].position, objects[2].position)), Zero)]_vars

\* ------------------------------------------------------------------------
\* The quantity layer and the construction of bodies (dimension.rs,
\* scalar.rs, object.rs)
\* ------------------------------------------------------------------------

\* A Dimension: the seven exponents of the SI base units.
Dimension(time, length, mass, electric_current) ==
    [time |-> time, length |-> length, mass |-> mass,
     electric_current |-> electric_current, thermodynamic_temperature |-> 0,
     amount_of_substance |-> 0, luminous_intensity |-> 0]

units_Null == Dimension(0, 0, 0, 0)

units_s == Dimension(1, 0, 0, 0)

units_m == Dimension(0, 1, 0, 0)

units_kg == Dimension(0, 0, 1, 0)

units_A == Dimension(0, 0, 0, 1)

\* Dimension::mul and Dimension::div: the exponents add and subtract.
DimMul(a, b) == [f \in DOMAIN a |-> a[f] + b[f]]

DimDiv(a, b) == [f \in DOMAIN a |-> a[f] - b[f]]

units_C == DimMul(units_A, units_s)

\* Scalar(value, dimension); a Vector carries one dimension in the same way.
Scalar(value, dim) == [value |-> value, dim |-> dim]

\* get_uniterror / dimension_err: Ok(()) when the dimension is the expected
\* one, else the error that names the variable.
get_uniterror(q, dim, var) ==
    IF q.dim # dim THEN [kind |-> "Err", var |-> var] ELSE [kind |-> "Ok"]

\* The first error among the points of a polygon, from point k on.
RECURSIVE PointsError(_, _)
PointsError(points, k) ==
    IF k > Len(points) THEN [kind |-> "Ok"]
    ELSE IF get_uniterror(points[k], units_Null, "collider::polygon::points").kind = "Err"
    THEN get_uniterror(points[k], units_Null, "collider::polygon::points")
    ELSE PointsError(points, k + 1)

\* The match on intrinsic.collider in Object::new: an error, a failed
\* assert!, or the collider as the body keeps it.
CheckSphere(radius) ==
    IF get_uniterror(radius, units_m, "collider::sphere::radius").kind = "Err"
    THEN get_uniterror(radius, units_m, "collider::sphere::radius")
    ELSE IF ~RGt(radius.value, Zero) THEN [kind |-> "Panic"]
    ELSE [kind |-> "Ok", collider |-> Sphere(radius.value)]

CheckPolygon(points) ==
    IF ~(Len(points) > N) THEN [kind |-> "Panic"]
    ELSE IF PointsError(points, 1).kind = "Err" THEN PointsError(points, 1)
    ELSE [kind |-> "Ok", collider |-> Polygon([k \in 1..Len(points) |-> points[k].value])]

CheckCollider(collider) ==
    IF collider.kind = "Sphere" THEN CheckSphere(collider.radius)
    ELSE IF collider.kind = "Polygon" THEN CheckPolygon(collider.points)
    ELSE [kind |-> "Ok", collider |-> Point]

\* The body Object::new builds once every check has passed.
Built(position, velocity, intrinsic, checked) ==
    IF checked.kind # "Ok" THEN checked
    ELSE [kind |-> "Ok",
          object |-> Body(0, position.value, velocity.value, intrinsic.mass.value,
                          intrinsic.charge.value, checked.collider,
                          intrinsic.attributes.is_static,
                          intrinsic.attributes.restitution_coefficient)]

\* Object::new: Err(UnitError), a panic, or Ok(Object).
Object_new(position, velocity, intrinsic) ==
    IF get_uniterror(position, units_m, "position").kind = "Err"
    THEN get_uniterror(position, units_m, "position")
    ELSE IF get_uniterror(velocity, DimDiv(units_m, units_s), "velocity").kind = "Err"
    THEN get_uniterror(velocity, DimDiv(units_m, units_s), "velocity")
    ELSE IF get_uniterror(intrinsic.mass, units_kg, "mass").kind = "Err"
    THEN get_uniterror(intrinsic.mass, units_kg, "mass")
    ELSE IF get_uniterror(intrinsic.charge, units_C, "charge").kind = "Err"
    THEN get_uniterror(intrinsic.charge, units_C, "charge")
    ELSE Built(position, velocity, intrinsic, CheckCollider(intrinsic.collider))

\* checked_add that compares the values where the code compares the
\* dimensions.
checked_add_ByValue(self, other) ==
    IF self.value # other.value THEN [kind |-> "None"]
    ELSE [kind |-> "Some", v |-> Scalar(RAdd(self.value, other.value), self.dim)]

\* Scalar::checked_add.
checked_add(self, other) ==
    IF self.dim # other.dim THEN [kind |-> "None"]
    ELSE [kind |-> "Some", v |-> Scalar(RAdd(self.value, other.value), self.dim)]

\* impl Add for Scalar: the sum, or a panic.
add(self, other) ==
    IF checked_add(self, other).kind = "Some"
    THEN [kind |-> "Ok", v |-> checked_add(self, other).v]
    ELSE [kind |-> "Panic"]

\* ------------------------------------------------------------------------
\* Calls of the quantity layer and of Object::new
\* ------------------------------------------------------------------------

\* The values and the dimensions of the scalars a caller passes.
CallValues == {Int2R(-1), Zero, Half, Int2R(2)}

CallDimensions == {units_Null, units_m, units_kg, DimDiv(units_m, units_s)}

CallScalars == {Scalar(v, d) : v \in CallValues, d \in CallDimensions}

\* The colliders a caller passes to Object::new: spheres of positive, zero
\* and negative radius, as a length or as a bare number; polygons of two or
\* of four points, bare or with one point given as a length.
PolygonPoints(n, dimOfLast) ==
    [k \in 1..n |->
        [value |-> IF k = 1 THEN Vec(0, 0) ELSE IF k = 2 THEN Vec(1, 0)
                   ELSE IF k = 3 THEN Vec(1, 1) ELSE Vec(0, 1),
         dim |-> IF k = n THEN dimOfLast ELSE units_Null]]

NewColliders ==
    {[kind |-> "Point"]}
    \cup {[kind |-> "Sphere", radius |-> Scalar(v, d)] :
             v \in {Int2R(-1), Zero, One}, d \in {units_m, units_Null}}
    \cup {[kind |-> "Polygon", points |-> PolygonPoints(n, d)] :
             n \in {2, 4}, d \in {units_Null, units_m}}

QuantityInit ==
    /\ UniverseIdle
    /\ BroadIdle
    /\ NarrowIdle
    /\ ResolveIdle
    /\ CallIdle
    /\ StepIdle

\* Object::new(position, velocity, intrinsic)
ObjectNew ==
    /\ call.op = "none"
    /\ \E dp \in {units_m, units_s} : \E dv \in {DimDiv(units_m, units_s), units_m} :
       \E dm \in {units_kg, units_Null} : \E dq \in {units_C, units_A} :
       \E collider \in NewColliders :
          LET position == [value |-> Vec(1, 0), dim |-> dp]
              velocity == [value |-> Vec(0, 1), dim |-> dv]
              intrinsic == [mass |-> Scalar(One, dm), charge |-> Scalar(Zero, dq),
                            collider |-> collider,
                            attributes |-> [is_static |-> FALSE,
                                            restitution_coefficient |-> One]]
          IN  /\ call' = [op |-> "Object::new", position |-> position,
                          velocity |-> velocity, intrinsic |-> intrinsic]
              /\ ret' = Object_new(position, velocity, intrinsic)
    /\ UNCHANGED <<universeVars, broadVars, narrowVars, resolveVars, st>>

\* a.checked_add(b)
CheckedAdd ==
    /\ call.op = "none"
    /\ \E a \in CallScalars : \E b \in CallScalars :
          /\ call' = [op |-> "checked_add", self |-> a, other |-> b]
          /\ ret' = checked_add(a, b)
    /\ UNCHANGED <<universeVars, broadVars, narrowVars, resolveVars, st>>

\* a + b
AddScalars ==
    /\ call.op = "none"
    /\ \E a \in CallScalars : \E b \in CallScalars :
          /\ call' = [op |-> "add", self |-> a, other |-> b]
          /\ ret' = add(a, b)
    /\ UNCHANGED <<universeVars, broadVars, narrowVars, resolveVars, st>>

\* The velocities in the history of the body update is called on, and the
\* forces and the values of dt it is called with.
UpdateVelocities == {Vec(0, 0), Vec(1, 0), Vec(0, 2)}

UpdateForces == {Vec(0, 0), Vec(2, -1)}

UpdateSteps == {Zero, Half, One}

UpdateBody(v0, v1, v2, v3, mass) ==
    [Body(0, Vec(1, 0), v0, mass, Zero, Point, FALSE, One)
        EXCEPT !.velocity = <<v0, v1, v2, v3>>]

\* object.update(dt, force)
ObjectUpdate ==
    /\ call.op = "none"
    /\ \E v0 \in UpdateVelocities : \E v1 \in UpdateVelocities :
       \E v2 \in UpdateVelocities : \E v3 \in UpdateVelocities :
       \E mass \in {One, Int2R(2)} : \E force \in UpdateForces : \E dt \in UpdateSteps :
          /\ call' = [op |-> "update", object |-> UpdateBody(v0, v1, v2, v3, mass),
                      dt |-> dt, force |-> force]
          /\ ret' = [kind |-> "Ok",
                     object |-> update(UpdateBody(v0, v1, v2, v3, mass), dt, force)]
    /\ UNCHANGED <<universeVars, broadVars, narrowVars, resolveVars, st>>

\* a % b and a / b on i32, for b other than zero: the quotient is rounded
\* towards zero and the remainder has the sign of a.
RemI32(a, b) == IF a < 0 THEN -((-a) % AbsInt(b)) ELSE a % AbsInt(b)

DivI32(a, b) ==
    IF (a < 0) = (b < 0) THEN AbsInt(a) \div AbsInt(b) ELSE -(AbsInt(a) \div AbsInt(b))

\* Dimension::pow
DimPow(d, exp) == [f \in DOMAIN d |-> d[f] * exp]

\* Some exponent of d is not divisible by exp.
AnyRemainder(d, exp) == \E f \in DOMAIN d : RemI32(d[f], exp) # 0

\* Dimension::radical: it panics when an exponent is not divisible, and on
\* the remainder by zero.
DimRadical(d, exp) ==
    IF exp = 0 \/ AnyRemainder(d, exp) THEN [kind |-> "Panic"]
    ELSE [kind |-> "Ok", dim |-> [f \in DOMAIN d |-> DivI32(d[f], exp)]]

\* Unit::try_radical: None where radical panics on an exponent.
try_radical(d, exp) ==
    IF exp = 0 THEN [kind |-> "Panic"]
    ELSE IF AnyRemainder(d, exp) THEN [kind |-> "None"]
    ELSE [kind |-> "Some", dim |-> [f \in DOMAIN d |-> DivI32(d[f], exp)]]

\* base multiplied by itself exp times, exp >= 0.
RECURSIVE WholePower(_, _)
WholePower(base, exp) == IF exp = 0 THEN 1 ELSE base * WholePower(base, exp - 1)

\* (unit as f32).powf(1.0 / exp as f32) % 1.0 == 0.0, for exp other than
\* zero: the power is a whole number. The power of 0 with a negative exp is
\* infinite and the power of a negative unit with a fractional 1 / exp is
\* NaN, and their remainder, NaN, differs from 0.0.
PowfIsWhole(unit, exp) ==
    IF exp = 1 \/ unit = 1 THEN TRUE
    ELSE IF unit = 0 THEN exp > 0
    ELSE IF unit < 0 THEN exp = -1 /\ unit = -1
    ELSE exp > 1 /\ \E k \in 2..unit : WholePower(k, exp) = unit

\* Unit::try_radical of the older copy of the crate: None when the power of
\* some exponent is not a whole number.
older_try_radical(d, exp) ==
    IF exp = 0 THEN [kind |-> "Panic"]
    ELSE IF \E f \in DOMAIN d : ~PowfIsWhole(d[f], exp) THEN [kind |-> "None"]
    ELSE [kind |-> "Some", dim |-> [f \in DOMAIN d |-> DivI32(d[f], exp)]]

\* The dimensions roots are taken of: the exponent a in the fields of a set
\* and b in the others.
RadicalDimensions ==
    {[f \in DOMAIN units_Null |-> IF f \in S THEN a ELSE b] :
        S \in SUBSET (DOMAIN units_Null), a \in {-4, 1, 2, 6}, b \in {0, 6}}

RadicalExponents == -3..3

\* d.radical(exp)
Radical ==
    /\ call.op = "none"
    /\ \E d \in RadicalDimensions : \E exp \in RadicalExponents :
          /\ call' = [op |-> "radical", dim |-> d, exp |-> exp]
          /\ ret' = DimRadical(d, exp)
    /\ UNCHANGED <<universeVars, broadVars, narrowVars, resolveVars, st>>

\* d.try_radical(exp)
TryRadical ==
    /\ call.op = "none"
    /\ \E d \in RadicalDimensions : \E exp \in RadicalExponents :
          /\ call' = [op |-> "try_radical", dim |-> d, exp |-> exp]
          /\ ret' = try_radical(d, exp)
    /\ UNCHANGED <<universeVars, broadVars, narrowVars, resolveVars, st>>

\* d.try_radical(exp) of the older copy
OlderTryRadical ==
    /\ call.op = "none"
    /\ \E d \in RadicalDimensions : \E exp \in RadicalExponents :
          /\ call' = [op |-> "older_try_radical", dim |-> d, exp |-> exp]
          /\ ret' = older_try_radical(d, exp)
    /\ UNCHANGED <<universeVars, broadVars, narrowVars, resolveVars, st>>

\* d.pow(exp).radical(exp)
PowRadical ==
    /\ call.op = "none"
    /\ \E d \in RadicalDimensions : \E exp \in RadicalExponents :
          /\ call' = [op |-> "pow_radical", dim |-> d, exp |-> exp]
          /\ ret' = DimRadical(DimPow(d, exp), exp)
    /\ UNCHANGED <<universeVars, broadVars, narrowVars, resolveVars, st>>

QuantityNext ==
    \/ ObjectNew \/ CheckedAdd \/ AddScalars \/ ObjectUpdate
    \/ Radical \/ TryRadical \/ OlderTryRadical \/ PowRadical

QuantitySpec == QuantityInit /\ [][QuantityNext]_vars

\* Some argument of the call of Object::new has the wrong dimension.
WrongDimension ==
    \/ call.position.dim # units_m
    \/ call.velocity.dim # DimDiv(units_m, units_s)
    \/ call.intrinsic.mass.dim # units_kg
    \/ call.intrinsic.charge.dim # units_C
    \/ /\ call.intrinsic.collider.kind = "Sphere"
       /\ call.intrinsic.collider.radius.dim # units_m
    \/ /\ call.intrinsic.collider.kind = "Polygon"
       /\ \E k \in 1..Len(call.intrinsic.collider.points) :
             call.intrinsic.collider.points[k].dim # units_Null

\* C13: Object::new returns a body or a dimension error and never aborts;
\* it returns the error whenever an argument has the wrong dimension.
C13_ConstructionTotal ==
    call.op = "Object::new" =>
        /\ ret.kind \in {"Ok", "Err"}
        /\ WrongDimension => ret.kind = "Err"

\* a.value + b.value, stated on numerators and denominators.
IsSumOf(x, a, b) ==
    /\ ~IsNaN(x)
    /\ x.n * (a.d * b.d) = (a.n * b.d + b.n * a.d) * x.d

\* C14: for scalars of equal dimension checked_add returns Some of the
\* scalar with the sum of the values and that dimension; for scalars of
\* different dimensions checked_add returns None and the operator + panics.
C14_CheckedAdd ==
    /\ call.op = "checked_add" =>
          IF call.self.dim = call.other.dim
          THEN /\ ret.kind = "Some"
               /\ ret.v.dim = call.self.dim
               /\ IsSumOf(ret.v.value, call.self.value, call.other.value)
          ELSE ret.kind = "None"
    /\ call.op = "add" /\ call.self.dim # call.other.dim => ret.kind = "Panic"

\* (1/2 m).checked_add(2 m) is Some(5/2 m).
C14_Witness ==
    /\ call.op = "checked_add"
    /\ call.self = Scalar(Half, units_m) /\ call.other = Scalar(Int2R(2), units_m)
    /\ ret = [kind |-> "Some", v |-> Scalar(Rat(5, 2), units_m)]

\* ------------------------------------------------------------------------
\* Universe::step, statement by statement
\* ------------------------------------------------------------------------

\* The loop over self.objects has ended once it is past the last object.
LoopEnded_OneEarly(i, objs) == i >= Len(objs)

LoopEnded(i, objs) == i > Len(objs)

\* field.at(object.position()).unwrap() * object.charge()
force_on(efs, o) == VScale(electric_field(efs, o.position), o.charge)

\* The universe is filled between the calls of step.
PhaseAdd == st.pc = "idle" /\ AddObject

\* step is called: update_electric_field(dt), then the field is built.
PhaseBegin ==
    /\ st.pc = "idle"
    /\ status = "ok"
    /\ steps < MaxSteps
    /\ \E dt \in StepSizes :
          /\ electric_fields' = update_electric_field(electric_fields, objects, dt)
          /\ st' = [pc |-> "integrate", dt |-> dt, i |-> 1, k |-> 0,
                    entry |-> objects, seen |-> <<>>, found |-> <<>>]
    /\ UNCHANGED <<objects, status, nextUid, issued, steps, stale,
                   broadVars, narrowVars, resolveVars, callVars>>

\* One turn of the loop over the objects: the force on object i, then its
\* update.
PhaseIntegrate ==
    /\ st.pc = "integrate"
    /\ ~LoopEnded(st.i, objects)
    /\ objects' = [objects EXCEPT ![st.i] =
                      update(@, st.dt, force_on(electric_fields, @))]
    /\ st' = [st EXCEPT !.i = @ + 1]
    /\ UNCHANGED <<electric_fields, status, nextUid, issued, steps, stale,
                   broadVars, narrowVars, resolveVars, callVars>>

\* What find_collisions leaves in st: the collisions, or its panic.
Found(objs, found) ==
    [st EXCEPT !.pc = IF found.panic THEN "panicked" ELSE "resolve",
               !.k = 1, !.seen = objs, !.found = found.collisions]

\* resolve_collisions is entered: find_collisions runs the broad and the
\* narrow phase over the objects as they are now.
PhaseFind ==
    /\ st.pc = "integrate"
    /\ LoopEnded(st.i, objects)
    /\ st' = Found(objects, find_collisions(objects))
    /\ status' = IF st'.pc = "panicked" THEN "panicked" ELSE "ok"
    /\ UNCHANGED <<objects, electric_fields, nextUid, issued, steps, stale,
                   broadVars, narrowVars, resolveVars, callVars>>

\* The loop of resolve_collisions with the collisions found again after
\* every turn.
PhaseResolve_Recomputed ==
    /\ st.pc = "resolve"
    /\ st.k <= Len(st.found)
    /\ objects' = ResolveOne(objects, st.found[st.k])
    /\ st' = [st EXCEPT !.k = @ + 1,
                        !.found = SubSeq(@, 1, st.k) \o find_collisions(objects').collisions]
    /\ UNCHANGED <<electric_fields, status, nextUid, issued, steps, stale,
                   broadVars, narrowVars, resolveVars, callVars>>

\* One turn of the loop of resolve_collisions.
PhaseResolve ==
    /\ st.pc = "resolve"
    /\ st.k <= Len(st.found)
    /\ objects' = ResolveOne(objects, st.found[st.k])
    /\ st' = [st EXCEPT !.k = @ + 1]
    /\ UNCHANGED <<electric_fields, status, nextUid, issued, steps, stale,
                   broadVars, narrowVars, resolveVars, callVars>>

\* step returns.
PhaseReturn ==
    /\ st.pc = "resolve"
    /\ st.k > Len(st.found)
    /\ st' = [st EXCEPT !.pc = "idle"]
    /\ steps' = steps + 1
    /\ UNCHANGED <<objects, electric_fields, status, nextUid, issued, stale,
                   broadVars, narrowVars, resolveVars, callVars>>

PhaseNext ==
    PhaseAdd \/ PhaseBegin \/ PhaseIntegrate \/ PhaseFind \/ PhaseResolve \/ PhaseReturn

PhaseSpec == Init /\ [][PhaseNext]_vars

\* C15: within one step the forces are those of the state on entry, every
\* body is integrated before the candidate pairs are produced, the pairs
\* and their confirmation come from the positions after integration, and
\* impulses are applied only after that; no body is integrated once a
\* collision of the step has been resolved.
C15_PhaseOrder ==
    /\ st.pc = "integrate" =>
          /\ st.k = 0 /\ st.found = <<>>
          /\ \A j \in 1..Len(objects) :
                objects[j] = IF j < st.i
                             THEN update(st.entry[j], st.dt,
                                         force_on(electric_fields, st.entry[j]))
                             ELSE st.entry[j]
    /\ st.pc = "resolve" =>
          /\ st.i = Len(st.entry) + 1
          /\ st.seen = Integrate(st.entry, electric_fields, st.dt)
          /\ st.found = find_collisions(st.seen).collisions
          /\ objects = ResolveFrom(st.seen, SubSeq(st.found, 1, st.k - 1), 1)
          /\ st.k >= 1

\* A step of two spheres that meet head-on has returned: both were
\* integrated, then their collision was found and resolved.
C15_Witness ==
    /\ st.pc = "idle"
    /\ steps = 1
    /\ Len(st.entry) = 2
    /\ st.i = 3
    /\ Len(st.found) = 1
    /\ st.k = 2
    /\ objects # st.seen

\* resolve_collisions was given two bodies, not both static, and returned.
Resolved ==
    /\ rs_after.done /\ ~rs_after.panic
    /\ ~(rs_before[1].is_static /\ rs_before[2].is_static)

\* Its loop went through one collision, whose normal has a rational length.
OneContact ==
    /\ Len(rs_after.collisions) = 1
    /\ IsSquare(squared(rs_after.collisions[1].normal))

\* The unit normal of that collision.
ContactNormal == normalized(rs_after.collisions[1].normal)

\* The places in the list of the bodies the collision calls A and B.
IdxA == rs_after.collisions[1].obj_a + 1

IdxB == rs_after.collisions[1].obj_b + 1

\* The velocity of A relative to B along the unit normal n, before and
\* after.
ApproachBefore(n) ==
    dot(VSub(rs_before[IdxA].velocity[4], rs_before[IdxB].velocity[4]), n)

ApproachAfter(n) ==
    dot(VSub(rs_after.objects[IdxA].velocity[4], rs_after.objects[IdxB].velocity[4]), n)

\* The momentum body i has gained along n.
GainedAlong(n, i) ==
    RMul(rs_before[i].mass,
         dot(VSub(rs_after.objects[i].velocity[4], rs_before[i].velocity[4]), n))

\* The impulse along n for the restitution e:
\* -(1 + e) (u_a - u_b).n / (1/m_a + 1/m_b), with 1/m_a + 1/m_b written as
\* (m_a + m_b) / (m_a m_b).
ImpulseFor(e, n) ==
    RDiv(RMul(RMul(RNeg(RAdd(One, e)), ApproachBefore(n)),
              RMul(rs_before[1].mass, rs_before[2].mass)),
         RAdd(rs_before[1].mass, rs_before[2].mass))

\* Every non-static body has gained the impulse for e, A with the sign plus
\* and B with the sign minus.
ResolvedWith(e, n) ==
    /\ ~rs_before[IdxA].is_static => GainedAlong(n, IdxA) = ImpulseFor(e, n)
    /\ ~rs_before[IdxB].is_static => GainedAlong(n, IdxB) = RNeg(ImpulseFor(e, n))

ResolvedWithLarger(n) ==
    \E e \in {rs_before[1].restitution_coefficient,
              rs_before[2].restitution_coefficient} :
       /\ RGe(e, rs_before[1].restitution_coefficient)
       /\ RGe(e, rs_before[2].restitution_coefficient)
       /\ ResolvedWith(e, n)

\* C16: the restitution a collision is resolved with is the larger of the
\* coefficients of the two bodies.
C16_RestitutionIsMax == Resolved /\ OneContact => ResolvedWithLarger(ContactNormal)

\* Two non-static bodies of restitution 0 and 1/2, the second at (1, 0) so
\* that the unit normal is (-1, 0), approached each other and were resolved
\* with 1/2: neither 0 nor 1/4 gives the velocities they have now.
C16_Witness ==
    /\ Resolved /\ OneContact
    /\ ContactNormal = Vec(-1, 0)
    /\ rs_before[2].position = Vec(1, 0)
    /\ rs_before[1].restitution_coefficient = Zero
    /\ rs_before[2].restitution_coefficient = Half
    /\ ~rs_before[1].is_static /\ ~rs_before[2].is_static
    /\ ApproachBefore(Vec(-1, 0)) # Zero
    /\ ResolvedWith(Half, Vec(-1, 0))
    /\ ~ResolvedWith(Zero, Vec(-1, 0))
    /\ ~ResolvedWith(Rat(1, 4), Vec(-1, 0))

\* The box of o straddles the median on axis n.
Straddles(o, median, n) ==
    /\ RLt(o.box.min[n + 1], median)
    /\ RLt(median, o.box.max[n + 1])

\* Every box of the sorted list that straddles the median is in both
\* partitions of the split.
StraddlersInBoth(sorted, median, n) ==
    \A k \in 1..Len(sorted) :
       Straddles(sorted[k], median, n) =>
          /\ sorted[k] \in Range(PartitionA(sorted, median, n))
          /\ sorted[k] \in Range(PartitionB(sorted, median, n))

FirstSplit(sorted) == StraddlersInBoth(sorted, Median(sorted, 0), 0)

\* C17: in the first split of possible_collisions, on axis 0, a box whose
\* min is below the median and whose max is above it is placed both in
\* partition A and in partition B.
C17_StraddlerInBoth ==
    bp_result.done /\ ~bp_result.panic /\ Len(bp_objects) >= 2 =>
        FirstSplit(SortByCenter(IndexedBoxes(bp_objects), 0))

\* C18: for every resolved collision of two bodies not both static, the
\* velocity of A relative to B along the contact normal is, after the
\* resolution, -e times what it was before, e being the restitution used.
C18_RelativeVelocityReversed ==
    Resolved /\ OneContact =>
        ApproachAfter(ContactNormal)
          = RMul(RNeg(RMax(rs_before[1].restitution_coefficient,
                           rs_before[2].restitution_coefficient)),
                 ApproachBefore(ContactNormal))

\* C20: resolving a collision of two non-static bodies that are moving apart
\* along the contact normal leaves them not approaching each other.
C20_SeparatingStaysSeparating ==
    /\ Resolved /\ OneContact
    /\ ~rs_before[1].is_static /\ ~rs_before[2].is_static
    /\ RGe(ApproachBefore(ContactNormal), Zero)
    => RGe(ApproachAfter(ContactNormal), Zero)

\* The acceleration of the call of update: force / mass.
CallAcceleration == VDiv(call.force, call.object.mass)

\* 8 (v - a dt) = v0 + 3 v1 + 3 v2 + v3, for the new velocity v.
WeightedBy1331(v) ==
    VScale(VSub(v, VScale(CallAcceleration, call.dt)), Int2R(8))
      = VAdd(VAdd(call.object.velocity[1], call.object.velocity[4]),
             VScale(VAdd(call.object.velocity[2], call.object.velocity[3]), Int2R(3)))

ApartAfter ==
    RGe(squared(VSub(rs_after.objects[1].position, rs_after.objects[2].position)),
        RMul(RAdd(rs_after.objects[1].collider.radius, rs_after.objects[2].collider.radius),
             RAdd(rs_after.objects[1].collider.radius, rs_after.objects[2].collider.radius)))

\* C21: after resolve_collisions has handled a single collision of two
\* spheres not both static, the spheres no longer penetrate: the distance
\* of their centres is at least rA + rB, whether both are non-static or
\* exactly one is static.
C21_NoPenetrationAfter == Resolved /\ OneContact => ApartAfter

\* The bounding box the broad phase gives a body of the narrow phase; the
\* size of a transform is 1.
NarrowBox(o) == get_bounding_box(o.collider, o.position, One)

\* x lies in the box b.
InBox(x, b) == \A i \in Axes : RLe(b.min[i], x[i]) /\ RLe(x[i], b.max[i])

\* The box of o encloses its collider: for a sphere it spans the position
\* plus and minus the radius on every axis, for a polygon it contains every
\* vertex, transformed as get_bounding_box and the narrow phase read it.
Encloses(o) ==
    /\ o.collider.kind = "Sphere" =>
          \A i \in Axes :
             /\ NarrowBox(o).min[i] = RSub(o.position[i], o.collider.radius)
             /\ NarrowBox(o).max[i] = RAdd(o.position[i], o.collider.radius)
    /\ o.collider.kind = "Polygon" =>
          \A k \in 1..Len(o.collider.points) :
             InBox(rotate_vec(VScale(o.collider.points[k], One)), NarrowBox(o))

\* C22: the bounding box of a body encloses its collider, and whenever
\* is_collision reports a collision of two bodies their bounding boxes
\* overlap.
C22_BoxEnclosesCollider ==
    nar.pc = "done" =>
        /\ Encloses(nar_a)
        /\ Encloses(nar_b)
        /\ nar.result.kind = "Some" => overlaps(NarrowBox(nar_a), NarrowBox(nar_b))

\* ------------------------------------------------------------------------
\* A universe of one body
\* ------------------------------------------------------------------------

\* Most calls of step on the universe of one body.
MaxLoneSteps == 2

\* Where the body starts: at the origin, or farther from it than a field
\* spreads in one step of dt = 1.
LonePositions == {Vec(0, 0), Vec(1500, 0)}

LoneVelocities == {Vec(0, 0), Vec(1, 0), Vec(0, 1)}

LoneCharges == {Int2R(-1), Zero, One}

\* The caller adds the only body: a point, not static.
LoneAdd ==
    /\ status = "ok"
    /\ nextUid = 0
    /\ \E x \in LonePositions : \E v \in LoneVelocities : \E q \in LoneCharges :
       \E m \in {One, Int2R(2)} :
         LET added == add_object(objects, Body(0, x, v, m, q, Point, FALSE, One))
         IN  /\ objects' = added.objects
             /\ issued' = Append(issued, added.id)
    /\ nextUid' = nextUid + 1
    /\ UNCHANGED <<electric_fields, status, steps, stale, broadVars, narrowVars, resolveVars, callVars, st>>

LoneStep ==
    /\ status = "ok"
    /\ Len(objects) = 1
    /\ steps < MaxLoneSteps
    /\ \E dt \in StepSizes : Returned(step(objects, electric_fields, dt))
    /\ steps' = steps + 1
    /\ UNCHANGED <<nextUid, issued, stale, broadVars, narrowVars, resolveVars, callVars, st>>

LoneNext == LoneAdd \/ LoneStep

LoneSpec == Init /\ [][LoneNext]_vars

\* C23: a body never contributes to its own net force; in a universe with
\* no other body and no external field every step computes a zero net force
\* for the body and leaves its velocity what it was, whatever its charge
\* and its initial velocity.
C23_NoSelfForce ==
    [][steps' = steps + 1 /\ Len(objects) = 1 =>
         /\ force_on(electric_fields', objects[1]) = VZero
         /\ Len(objects') = 1
         /\ objects'[1].velocity[4] = objects[1].velocity[4]]_vars

\* ------------------------------------------------------------------------
\* A step over a row of overlapping spheres
\* ------------------------------------------------------------------------

\* Most spheres in the row.
MaxChain == 3

\* Spheres of radius 3 on the x axis, close enough for the broad phase to
\* test every pair; the last one moves.
ChainBody(x, vx) == Body(0, Vec(x, 0), Vec(vx, 0), One, Zero, Sphere(Int2R(3)), FALSE, Half)

ChainBodies == <<ChainBody(0, 0), ChainBody(1, 0), ChainBody(2, 0), ChainBody(3, -1)>>

ChainAdd ==
    /\ st.pc = "idle"
    /\ status = "ok"
    /\ steps = 0
    /\ nextUid < MaxChain
    /\ \E k \in 1..Len(ChainBodies) :
         LET added == add_object(objects, [ChainBodies[k] EXCEPT !.uid = nextUid])
         IN  /\ objects' = added.objects
             /\ issued' = Append(issued, added.id)
    /\ nextUid' = nextUid + 1
    /\ UNCHANGED <<electric_fields, status, steps, stale, broadVars, narrowVars, resolveVars, callVars, st>>

ChainNext ==
    ChainAdd \/ PhaseBegin \/ PhaseIntegrate \/ PhaseFind \/ PhaseResolve \/ PhaseReturn

ChainSpec == Init /\ [][ChainNext]_vars

\* The collision list is the one detected on the bodies as integration
\* left them, and a step that has returned has gone through all of it.
ListOfIntegrated ==
    /\ st.pc = "resolve" =>
          st.found = find_collisions(Integrate(st.entry, electric_fields, st.dt)).collisions
    /\ st.pc = "idle" => st.k = Len(st.found) + (IF steps = 0 THEN 0 ELSE 1)

\* The turn of the loop for collision k moves and deflects its bodies with
\* the normal the narrow phase returned for them as integration left them.
TurnUsesDetected(k) ==
    LET col == st.found[k]
        ia == col.obj_a + 1
        ib == col.obj_b + 1
        detected == narrow_phase(st.seen[ia], st.seen[ib])
        half == VDiv(detected.v, Int2R(2))
    IN  /\ detected.kind = "Some"
        /\ objects'[ia].position = VAdd(objects[ia].position, half)
        /\ objects'[ib].position = VSub(objects[ib].position, half)
        /\ \A i \in 1..Len(objects) : i \notin {ia, ib} => objects'[i] = objects[i]

\* C24: the collision list of a step is computed once, from the state after
\* integration and before any impulse, and consumed within the step:
\* resolving a collision adds, drops and recomputes no collision of the
\* list, and every collision is resolved with the normal found at
\* detection.
C24_ListComputedOnce ==
    /\ []ListOfIntegrated
    /\ [][st.pc = "resolve" /\ st'.pc = "resolve" =>
            /\ st'.found = st.found
            /\ st'.seen = st.seen
            /\ st'.k = st.k + 1
            /\ TurnUsesDetected(st.k)]_vars

\* Three spheres at 0, 1 and 2: the list has three collisions, the last one
\* of the second and the third sphere with the normal (-5, 0) of detection;
\* by then the first two turns have moved the second sphere to 7/2 and the
\* third to 4, where the narrow phase would return another normal.
C24_Witness ==
    /\ st.pc = "idle" /\ steps = 1
    /\ Len(st.found) = 3 /\ st.k = 4
    /\ st.found[3] = [obj_a |-> 1, obj_b |-> 2, normal |-> Vec(-5, 0)]
    /\ objects[2].position = Vec(1, 0)
    /\ objects[3].position = <<Rat(13, 2), Zero>>
    /\ find_collisions(objects).collisions # st.found

\* ------------------------------------------------------------------------
\* The recursion of the broad phase, call by call
\* ------------------------------------------------------------------------

\* possible_collisions is called: fewer than two bodies return at once,
\* otherwise the first call of the recursion is made.
RecurBegin ==
    /\ ~bp_result.done
    /\ bp_stack = <<>>
    /\ IF Len(bp_objects) < 2
       THEN /\ bp_result' = [done |-> TRUE, panic |-> FALSE, pairs |-> <<>>]
            /\ bp_stack' = <<>>
       ELSE /\ bp_result' = bp_result
            /\ bp_stack' = <<Frame(IndexedBoxes(bp_objects), 0, 0)>>
    /\ UNCHANGED <<bp_orig, bp_objects, universeVars, narrowVars, resolveVars, callVars, st>>

\* The call on top runs: a panic unwinds everything, otherwise its pairs
\* are pushed and the calls it makes come before those still waiting.
RecurCall ==
    /\ bp_stack # <<>>
    /\ LET r == Activation(Head(bp_stack))
       IN  /\ bp_stack' = IF r.panic THEN <<>> ELSE r.calls \o Tail(bp_stack)
           /\ bp_result' = IF r.panic THEN [done |-> TRUE, panic |-> TRUE, pairs |-> <<>>]
                           ELSE [done |-> bp_stack' = <<>>, panic |-> FALSE,
                                 pairs |-> bp_result.pairs \o r.pairs]
    /\ UNCHANGED <<bp_orig, bp_objects, universeVars, narrowVars, resolveVars, callVars, st>>

RecurNext == RecurBegin \/ RecurCall

RecurSpec == BroadInit /\ [][RecurNext]_vars

\* The calls the call on top has just made.
NewCalls == SubSeq(bp_stack', 1, Len(bp_stack') - Len(bp_stack) + 1)

\* The pairs the call on top has just pushed.
NewPairs == SubSeq(bp_result'.pairs, Len(bp_result.pairs) + 1, Len(bp_result'.pairs))

\* g has strictly fewer boxes than f, or the same boxes and a larger n_not.
Shrinks(f, g) ==
    \/ Len(g.objects) < Len(f.objects)
    \/ Range(g.objects) = Range(f.objects) /\ g.n_not > f.n_not

\* The pairs of boxes of the slice s that overlap, each once.
OverlappingIn(s) ==
    {{s[i].idx, s[j].idx} : <<i, j>> \in
        {q \in (1..Len(s)) \X (1..Len(s)) : q[1] < q[2] /\ overlaps(s[q[1]].box, s[q[2]].box)}}

\* A bound on the number of calls that a call on k boxes with n_not = j
\* leads to, itself included: it calls itself on the same boxes with
\* j + 1 while j < N, or twice on at most k - 1 boxes.
RECURSIVE Weight(_, _)
Weight(k, j) ==
    IF k = 0 THEN 1
    ELSE LET same == IF j < N THEN Weight(k, j + 1) ELSE 0
             fewer == 2 * Weight(k - 1, 0)
         IN  1 + (IF same > fewer THEN same ELSE fewer)

\* The same bound for everything that is still to run.
RECURSIVE Pending(_)
Pending(stack) ==
    IF stack = <<>> THEN 0
    ELSE (IF Head(stack).arm = "pair" THEN 1
          ELSE Weight(Len(Head(stack).objects), Head(stack).n_not))
         + Pending(Tail(stack))

\* One call: what it calls shrinks, and once n_not has reached N it calls
\* nothing and pushes exactly the overlapping pairs of its slice.
CallShrinks ==
    bp_stack # <<>> /\ ~bp_result'.panic =>
        /\ \A k \in 1..Len(NewCalls) : Shrinks(Head(bp_stack), NewCalls[k])
        /\ Head(bp_stack).n_not >= N =>
              /\ NewCalls = <<>>
              /\ Len(NewPairs) = Cardinality(OverlappingIn(Head(bp_stack).objects))
              /\ {{p[1], p[2]} : p \in Range(NewPairs)} = OverlappingIn(Head(bp_stack).objects)

\* C25: the recursion of the broad phase terminates on every input: every
\* call receives strictly fewer boxes than its caller or the same boxes
\* with a larger n_not, so that every call lowers a bound on the calls
\* still to come; a call whose n_not has reached N makes no call and
\* returns exactly the overlapping pairs of its set; 0 or 1 bodies give an
\* empty list; and what the calls return together is what
\* possible_collisions returns.
C25_RecursionTerminates ==
    /\ [][CallShrinks]_vars
    /\ [][bp_stack # <<>> => Pending(bp_stack') < Pending(bp_stack)]_vars
    /\ [](bp_stack # <<>> => ~bp_result.done /\ \A k \in 1..Len(bp_stack) : bp_stack[k].n_not <= N)
    /\ [](bp_result.done /\ Len(bp_objects) < 2 => bp_result.pairs = <<>> /\ ~bp_result.panic)
    /\ [](bp_result.done =>
            /\ bp_stack = <<>>
            /\ bp_result.panic = possible_collisions(bp_objects).panic
            /\ bp_result.pairs = possible_collisions(bp_objects).pairs)

\* Three boxes that no axis separates: the call with n_not = N is about to
\* run on all three, after N calls that did not shrink the set.
C25_Witness ==
    /\ bp_stack # <<>>
    /\ Len(bp_stack) = 1
    /\ Head(bp_stack).n_not = N
    /\ Len(Head(bp_stack).objects) = 3
    /\ Cardinality(OverlappingIn(Head(bp_stack).objects)) = 3

\* C26: every pair (a, b) possible_collisions returns has a different from
\* b and both below the number of bodies, and no unordered pair {a, b} is
\* in the result more than once.
C26_PairsDistinctInRange ==
    bp_result.done /\ ~bp_result.panic /\ bp_stack = <<>> =>
        /\ \A k \in 1..Len(bp_result.pairs) :
              /\ bp_result.pairs[k][1] # bp_result.pairs[k][2]
              /\ bp_result.pairs[k][1] \in 0..(Len(bp_objects) - 1)
              /\ bp_result.pairs[k][2] \in 0..(Len(bp_objects) - 1)
        /\ \A k \in 1..Len(bp_result.pairs) : \A m \in 1..Len(bp_result.pairs) :
              k # m => {bp_result.pairs[k][1], bp_result.pairs[k][2]}
                         # {bp_result.pairs[m][1], bp_result.pairs[m][2]}

\* Three bodies for which three pairs are returned.
C26_Witness ==
    /\ bp_result.done /\ ~bp_result.panic
    /\ Len(bp_objects) = 3
    /\ Len(bp_result.pairs) = 3

\* The total momentum of the two bodies of a list.
Momentum(objs) ==
    VAdd(VScale(objs[1].velocity[4], objs[1].mass), VScale(objs[2].velocity[4], objs[2].mass))

Swapped == is_collision(nar_b.collider, nar_b.position, nar_a.collider, nar_a.position)

\* C28: the narrow phase is antisymmetric: for two bodies at different
\* positions is_collision(A, B) returns a contact vector v exactly when
\* is_collision(B, A) returns -v, and no collision exactly when the
\* swapped call returns no collision.
C28_Antisymmetric ==
    nar.pc = "done" /\ nar_a.position # nar_b.position =>
        /\ nar.result.kind = "Some" <=> Swapped.kind = "Some"
        /\ nar.result.kind = "Some" => Swapped.v = VNeg(nar.result.v)
        /\ nar.result.kind = "None" <=> Swapped.kind = "None"

\* ------------------------------------------------------------------------
\* remove_objects, with the predicate it is called with
\* ------------------------------------------------------------------------

\* remove_objects(f) is called; f is the set of places whose body the
\* predicate returns true for.  The call and what it leaves are recorded.
RemoveCall ==
    /\ status = "ok"
    /\ objects # <<>>
    /\ \E f \in SUBSET (1..Len(objects)) :
         /\ objects' = remove_objects(objects, f)
         /\ stale' = stale \cup {objects[i].uid : i \in
                                   {k \in f : \E m \in 1..(k - 1) : m \notin f}}
         /\ call' = [op |-> "remove_objects", f |-> f, objects |-> objects]
         /\ ret' = [kind |-> "Ok", objects |-> objects']
    /\ UNCHANGED <<electric_fields, status, nextUid, issued, steps, broadVars, narrowVars, resolveVars, st>>

RemoveNext == AddObject \/ RemoveCall

RemoveSpec == Init /\ [][RemoveNext]_vars

\* The place in the list s of the body with the uid u.
PlaceOf(s, u) == CHOOSE k \in 1..Len(s) : s[k].uid = u

\* C29: remove_objects(predicate) removes from the universe exactly the
\* bodies for which the predicate returns true and keeps all the others,
\* unchanged and in their original relative order.
C29_RemovesMatching ==
    call.op = "remove_objects" =>
        /\ {ret.objects[i].uid : i \in 1..Len(ret.objects)}
             = {call.objects[k].uid : k \in (1..Len(call.objects)) \ call.f}
        /\ \A i \in 1..Len(ret.objects) : ret.objects[i] \in Range(call.objects)
        /\ \A i \in 1..Len(ret.objects) : \A j \in 1..Len(ret.objects) :
              i < j => PlaceOf(call.objects, ret.objects[i].uid)
                         < PlaceOf(call.objects, ret.objects[j].uid)

\* Every exponent of the dimension of the call is a multiple of its exp.
AllDivisible == \A f \in DOMAIN call.dim : \E q \in -6..6 : call.dim[f] = q * call.exp

\* The dimension r, raised to the power exp of the call, is the dimension
\* of the call.
IsRootOfCall(r) == \A f \in DOMAIN call.dim : r[f] * call.exp = call.dim[f]

\* The newer code only: radical panics and try_radical returns None exactly
\* when some exponent is not divisible, the result is the root, and the
\* root of the power is the dimension again.
NewerRadical ==
    call.op \in {"radical", "try_radical", "pow_radical"} /\ call.exp # 0 =>
        /\ call.op = "radical" =>
              /\ ret.kind = IF AllDivisible THEN "Ok" ELSE "Panic"
              /\ AllDivisible => IsRootOfCall(ret.dim)
        /\ call.op = "try_radical" =>
              /\ ret.kind = IF AllDivisible THEN "Some" ELSE "None"
              /\ AllDivisible => IsRootOfCall(ret.dim)
        /\ call.op = "pow_radical" => ret = [kind |-> "Ok", dim |-> call.dim]

\* C30: the nth root of a dimension, n other than zero, is defined exactly
\* when every one of the seven exponents is divisible by n, and every
\* exponent of the result is then the exponent divided by n; otherwise the
\* operation gives no dimension (a panic or None); a dimension raised to the
\* power n and rooted by n is the dimension again.
C30_RadicalDefinedWhenDivisible ==
    /\ NewerRadical
    /\ call.op = "older_try_radical" /\ call.exp # 0 =>
          /\ ret.kind = IF AllDivisible THEN "Some" ELSE "None"
          /\ AllDivisible => IsRootOfCall(ret.dim)

====
